---- MODULE Spec2Model ----
(***************************************************************************)
(* A model of django-rest-swagger's documentation generator:               *)
(*   docgenerator.py   ModelGenerator (schema registry, worklist),         *)
(*                     DocumentationGenerator (orchestrator)               *)
(*   introspectors.py  IntrospectorHelper.import_from_string,              *)
(*                     view and method introspectors                       *)
(* Python dicts are functions, lists are sequences, an optional value      *)
(* (x or None) is a sequence of length at most one.                        *)
(***************************************************************************)
EXTENDS Integers, Sequences, FiniteSets, TLC

(* ---------------------------------------------------------------------- *)
(* Bounds                                                                  *)
(* ---------------------------------------------------------------------- *)
NumTypes == 3        \* serializer classes declared in the project
MaxEdges == 3        \* nested-serializer fields declared in total
MaxRoots == 2        \* classes that callers hand to register(); the others
                     \* are met only as nested fields
ExpandCap == 2       \* saturation of the per-id expansion counter
MaxDots == 3         \* leading dots of an override string
MaxParts == 2        \* dotted components of an override string
MaxApis == 2         \* endpoints passed to one generate(apis) call

VARIABLES
    edges,           \* the project's serializer classes: <<t, u>> when class t
                     \* declares a field that is a serializer of class u
    serializers,     \* ModelGenerator.serializers : id -> serializer class
    models,          \* ModelGenerator.models      : id -> SchemaDocument
    pc,              \* position of the caller of the ModelGenerator
    returned,        \* the map the last generate() call returned, <<>> before
    registered,      \* history: serializer classes passed to register()
    reRegistered,    \* history: register() was called for an id already known
    expandCount,     \* history: id -> number of _generate_model calls (saturating)
    iterations,      \* history: loop iterations of the current generate() call
    ifs,             \* the activation of IntrospectorHelper.import_from_string
    intro,           \* one endpoint's view introspector and its iteration
    dg,              \* the activation of DocumentationGenerator.generate
    prs,             \* the activation of a docstring parser's parse(doc)
    rc,              \* the route collector's calls on one route tree
    gens             \* generate invocations running side by side, and the
                     \* handler classes' `request` attribute they write

vars == <<edges, serializers, models, pc, returned, registered, reRegistered,
          expandCount, iterations, ifs, intro, dg, prs, rc, gens>>

\* the variables of one ModelGenerator and of its callers
mgVars == <<edges, serializers, models, pc, returned, registered, reRegistered,
            expandCount, iterations>>

(* ---------------------------------------------------------------------- *)
(* Python values                                                           *)
(* ---------------------------------------------------------------------- *)
None == << >>
Some(v) == <<v>>

EmptyDict == << >>

\* d[k] = v
DictSet(d, k, v) == [x \in (DOMAIN d) \cup {k} |-> IF x = k THEN v ELSE d[x]]

\* d without key k (the dict after popitem() returned (k, d[k]))
DictDel(d, k) == [x \in (DOMAIN d) \ {k} |-> d[x]]

\* dict(a, **b)
DictMerge(a, b) == [x \in (DOMAIN a) \cup (DOMAIN b) |-> IF x \in DOMAIN b THEN b[x] ELSE a[x]]

(* ---------------------------------------------------------------------- *)
(* Serializer classes and their declared fields (the inputs)               *)
(* ---------------------------------------------------------------------- *)
Types == 1..NumTypes
RootTypes == {t \in Types : t <= MaxRoots}

\* the iteration counter saturates above every count a terminating run has
IterCap == NumTypes + MaxEdges + 1

TypeNames == <<"ASerializer", "BSerializer", "CSerializer", "DSerializer",
               "ESerializer", "FSerializer">>

\* a serializer class object, and an instance of it (a nested field)
SerializerClass(t) == [cls |-> t, isclass |-> TRUE]
SerializerInstance(t) == [cls |-> t, isclass |-> FALSE]

\* rest_framework field objects, by the attributes generate_field reads
CharField(n) ==
    [name |-> n, type_label |-> "string", base |-> "Field",
     required |-> Some(TRUE), read_only |-> Some(FALSE), help_text |-> Some(""),
     default |-> None, min_length |-> None, max_length |-> Some(200),
     many |-> FALSE, choices |-> None, serializer |-> None]

BooleanField(n) ==
    [name |-> n, type_label |-> "boolean", base |-> "Field",
     required |-> Some(FALSE), read_only |-> Some(TRUE), help_text |-> Some(""),
     default |-> Some(FALSE), min_length |-> None, max_length |-> None,
     many |-> FALSE, choices |-> None, serializer |-> None]

ChoiceField(n) ==
    [name |-> n, type_label |-> "multiple choice", base |-> "Field",
     required |-> Some(TRUE), read_only |-> Some(FALSE), help_text |-> Some(""),
     default |-> None, min_length |-> None, max_length |-> None,
     many |-> FALSE, choices |-> Some(<< <<"a", "Alpha">>, <<"b", "Beta">> >>),
     serializer |-> None]

PrimaryKeyRelatedField(n, isMany) ==
    [name |-> n, type_label |-> "field", base |-> "PrimaryKeyRelatedField",
     required |-> Some(TRUE), read_only |-> Some(FALSE), help_text |-> Some(""),
     default |-> None, min_length |-> None, max_length |-> None,
     many |-> isMany, choices |-> None, serializer |-> None]

NestedSerializerField(n, t, isMany) ==
    [name |-> n, type_label |-> "field", base |-> "BaseSerializer",
     required |-> Some(TRUE), read_only |-> Some(FALSE), help_text |-> Some(""),
     default |-> None, min_length |-> None, max_length |-> None,
     many |-> isMany, choices |-> None, serializer |-> Some(SerializerInstance(t))]

\* the non-serializer fields a class declares: varied by class
PlainFields(t) ==
    CASE t % 4 = 1 -> <<CharField("content")>>
      [] t % 4 = 2 -> <<PrimaryKeyRelatedField("owner", FALSE), BooleanField("active")>>
      [] t % 4 = 3 -> << >>
      [] OTHER     -> <<ChoiceField("kind"), PrimaryKeyRelatedField("tags", TRUE)>>

NestedNames == <<"to_a", "to_b", "to_c", "to_d", "to_e", "to_f">>

\* a reference to a later class is a list of children, one to an earlier
\* class (or to itself) a single parent
RECURSIVE NestedFields(_, _)
NestedFields(t, u) ==
    IF u > NumTypes THEN << >>
    ELSE (IF <<t, u>> \in edges
          THEN <<NestedSerializerField(NestedNames[u], u, t < u)>>
          ELSE << >>) \o NestedFields(t, u + 1)

\* the fields class t declares, in declaration order
DeclaredFields(t) == PlainFields(t) \o NestedFields(t, 1)

EdgeSets == {e \in SUBSET (Types \X Types) : Cardinality(e) <= MaxEdges}

\* serializer().get_fields(): the ordered (name, field) items
get_fields(serializer) == DeclaredFields(serializer.cls)

(* ---------------------------------------------------------------------- *)
(* SerializerIntrospector.get_identifier, ModelGenerator                   *)
(* ---------------------------------------------------------------------- *)
\* the schema id of a serializer class or instance: its declared name
get_identifier(serializer) == TypeNames[serializer.cls]

get_serializer_class(serializer) ==
    IF serializer.isclass THEN serializer ELSE SerializerClass(serializer.cls)

register_unguarded(mg, serializer) ==
    [mg EXCEPT !.serializers =
        DictSet(@, get_identifier(serializer), get_serializer_class(serializer))]

\* ModelGenerator.register on the generator state mg = [serializers, models]
register(mg, serializer) ==
    LET id == get_identifier(serializer)
    IN  IF id \notin DOMAIN mg.models
        THEN [mg EXCEPT !.serializers = DictSet(@, id, get_serializer_class(serializer))]
        ELSE mg

\* the keys of prop whose value is not None, unwrapped
DropNone(prop) ==
    [k \in {x \in DOMAIN prop : prop[x] # None} |-> prop[k][1]]

RECURSIVE ChoiceKeys(_)
ChoiceKeys(choices) ==
    IF choices = << >> THEN << >>
    ELSE <<Head(choices)[1]>> \o ChoiceKeys(Tail(choices))

register_nested_skipped(mg, field, withGenerator) == mg

\* `if model_generator is not None: model_generator.register(field)`
register_nested(mg, field, withGenerator) ==
    IF withGenerator THEN register(mg, field) ELSE mg

\* ModelGenerator.generate_field: the property and the generator state after
\* the registrations it made (withGenerator: model_generator is not None)
generate_field(field, mg, withGenerator) ==
    LET base == [type         |-> Some(field.type_label),
                 required     |-> field.required,
                 readOnly     |-> field.read_only,
                 description  |-> field.help_text,
                 defaultValue |-> field.default,
                 minimum      |-> field.min_length,
                 maximum      |-> field.max_length,
                 enum         |-> None,
                 items        |-> None]
        isChoice == field.type_label = "multiple choice" /\ field.choices # None
        p1 == IF isChoice
              THEN [base EXCEPT !.type = Some("string"),
                                !.enum = Some(ChoiceKeys(field.choices[1]))]
              ELSE base
        isField == field.type_label = "field"
        isPk == isField /\ field.base = "PrimaryKeyRelatedField"
        isSer == isField /\ field.base = "BaseSerializer"
        is_primitive == isPk /\ ~isSer
        field_type == IF isSer THEN Some(get_identifier(field.serializer[1]))
                      ELSE IF isPk THEN Some("integer")
                      ELSE None
        mg1 == IF isSer THEN register_nested(mg, field.serializer[1], withGenerator) ELSE mg
        p2 == IF field_type # None
              THEN IF field.many
                   THEN [p1 EXCEPT !.type = Some("array"),
                                   !.items = IF is_primitive
                                             THEN Some([type |-> field_type[1]])
                                             ELSE Some([k \in {"$ref"} |-> field_type[1]])]
                   ELSE [p1 EXCEPT !.type = field_type]
              ELSE p1
    IN  [prop |-> DropNone(p2), mg |-> mg1]

\* the loop of _generate_model over fields.items() (each field's result is
\* bound as a value before the next field is converted)
RECURSIVE GenerateProperties(_, _, _)
GenerateProperties(fields, properties, mg) ==
    IF fields = << >> THEN [properties |-> properties, mg |-> mg]
    ELSE CHOOSE result \in
            {GenerateProperties(Tail(fields),
                                DictSet(properties, Head(fields).name, r.prop), r.mg) :
                r \in {generate_field(Head(fields), mg, TRUE)}} : TRUE

generate_model_writable_only(id, serializer, mg) ==
    LET r == GenerateProperties(SelectSeq(get_fields(serializer),
                                          LAMBDA field : field.read_only # Some(TRUE)),
                                EmptyDict, mg)
    IN  [model |-> [id |-> id, properties |-> r.properties], mg |-> r.mg]

\* ModelGenerator._generate_model
generate_model(id, serializer, mg) ==
    LET r == GenerateProperties(get_fields(serializer), EmptyDict, mg)
    IN  [model |-> [id |-> id, properties |-> r.properties], mg |-> r.mg]

popitem_keeps_item(d, id) == d

\* the dict left by self.serializers.popitem() returning (id, d[id])
popitem(d, id) == DictDel(d, id)

already_generated_never(id, m) == FALSE

\* `if id in self.models: continue`
already_generated(id, m) == id \in DOMAIN m

Bump(counts, id) ==
    [x \in (DOMAIN counts) \cup {id} |->
        IF x = id
        THEN (IF id \in DOMAIN counts
              THEN (IF counts[id] < ExpandCap THEN counts[id] + 1 ELSE counts[id])
              ELSE 1)
        ELSE counts[x]]

(* ---------------------------------------------------------------------- *)
(* Strings that are searched, sliced and split are sequences of characters *)
(* ---------------------------------------------------------------------- *)
\* s.find(c): the 0-based index of the first c, or -1
StrFind(s, c) ==
    LET at == {i \in DOMAIN s : s[i] = c}
    IN  IF at = {} THEN -1 ELSE (CHOOSE i \in at : \A j \in at : i <= j) - 1

\* s.rfind(c): the 0-based index of the last c, or -1
StrRFind(s, c) ==
    LET at == {i \in DOMAIN s : s[i] = c}
    IN  IF at = {} THEN -1 ELSE (CHOOSE i \in at : \A j \in at : i >= j) - 1

\* s[:idx] and s[idx:] for 0 <= idx <= len(s)
StrPrefix(s, idx) == SubSeq(s, 1, idx)
StrSuffix(s, idx) == SubSeq(s, idx + 1, Len(s))

\* s.split(c)
RECURSIVE StrSplit(_, _)
StrSplit(s, c) ==
    LET idx == StrFind(s, c)
    IN  IF idx = -1 THEN <<s>>
        ELSE <<StrPrefix(s, idx)>> \o StrSplit(StrSuffix(s, idx + 1), c)

\* c.join(parts)
RECURSIVE StrJoin(_, _)
StrJoin(parts, c) ==
    IF parts = << >> THEN << >>
    ELSE IF Len(parts) = 1 THEN parts[1]
    ELSE parts[1] \o <<c>> \o StrJoin(Tail(parts), c)

\* parts[:-1]
ButLast(parts) == SubSeq(parts, 1, Len(parts) - 1)

\* parts[i:] for a 0-based i
DropFirst(parts, i) == SubSeq(parts, i + 1, Len(parts))

\* whitespace, as str.strip() and str.lstrip() see it
IsSpace(c) == c \in {" ", "\n"}

\* s.lstrip()
RECURSIVE LStrip(_)
LStrip(s) ==
    IF s # << >> /\ IsSpace(s[1]) THEN LStrip(Tail(s)) ELSE s

\* s.rstrip()
RECURSIVE RStrip(_)
RStrip(s) ==
    IF s # << >> /\ IsSpace(s[Len(s)]) THEN RStrip(ButLast(s)) ELSE s

\* s.strip()
Strip(s) == RStrip(LStrip(s))

\* s.startswith(sub) at the 0-based position i
MatchesAt(s, sub, i) ==
    /\ i + Len(sub) <= Len(s)
    /\ \A k \in 1..Len(sub) : s[i + k] = sub[k]

\* s.find(sub, start): the 0-based index of the first occurrence of sub at
\* or after start, or -1
FindSub(s, sub, start) ==
    LET at == {i \in start..Len(s) : MatchesAt(s, sub, i)}
    IN  IF at = {} THEN -1 ELSE CHOOSE i \in at : \A j \in at : i <= j

\* s.split(sep) for a separator of one or more characters
RECURSIVE SplitSub(_, _)
SplitSub(s, sep) ==
    LET idx == FindSub(s, sep, 0)
    IN  IF idx = -1 THEN <<s>>
        ELSE <<StrPrefix(s, idx)>> \o SplitSub(StrSuffix(s, idx + Len(sep)), sep)

\* s.splitlines()
SplitLines(s) ==
    LET parts == StrSplit(s, "\n")
    IN  IF s = << >> THEN << >>
        ELSE IF parts[Len(parts)] = << >> THEN ButLast(parts) ELSE parts

\* len(line) - len(line.lstrip())
IndentOf(line) == Len(line) - Len(LStrip(line))

\* the smaller of two numbers
Min2(a, b) == IF a <= b THEN a ELSE b

\* min(seq) of a non-empty sequence of numbers
RECURSIVE MinOf(_)
MinOf(seq) ==
    IF Len(seq) = 1 THEN seq[1] ELSE Min2(seq[1], MinOf(Tail(seq)))

\* str.isdigit()
Digits == {"0", "1", "2", "3", "4", "5", "6", "7", "8", "9"}
IsDigit(s) == s # << >> /\ \A i \in DOMAIN s : s[i] \in Digits

\* int(s) for a string of digits
DigitValue ==
    [c \in Digits |->
        CASE c = "0" -> 0 [] c = "1" -> 1 [] c = "2" -> 2 [] c = "3" -> 3
          [] c = "4" -> 4 [] c = "5" -> 5 [] c = "6" -> 6 [] c = "7" -> 7
          [] c = "8" -> 8 [] OTHER -> 9]

RECURSIVE ToInt(_)
ToInt(s) ==
    IF s = << >> THEN 0 ELSE 10 * ToInt(ButLast(s)) + DigitValue[s[Len(s)]]

\* str.lower() of a string of characters
LowerChar ==
    [Q |-> "q", P |-> "p", R |-> "r", E |-> "e", M |-> "m", X |-> "x"]

StrLower(s) ==
    [i \in DOMAIN s |-> IF s[i] \in DOMAIN LowerChar THEN LowerChar[s[i]] ELSE s[i]]

(* ---------------------------------------------------------------------- *)
(* The importable modules of the project                                   *)
(* ---------------------------------------------------------------------- *)
\* package p with module p.t; the handlers live in p.t or in p
ModP == <<"p">>
ModPT == <<"p", ".", "t">>

NameAs == <<"A", "s">>
NameBs == <<"B", "s">>
NameC == <<"C">>

\* module path -> attribute name -> object
ModuleAttrs(path) ==
    IF path = ModPT
    THEN [n \in {NameAs, NameBs, NameC} |->
             IF n = NameAs THEN SerializerClass(1)
             ELSE IF n = NameBs THEN SerializerClass(2)
             ELSE SerializerClass(3)]
    ELSE [n \in {<<"t">>, NameBs} |->
             IF n = NameBs THEN SerializerClass(2) ELSE [module |-> ModPT]]

Modules == {ModP, ModPT}

\* importlib.import_module(module_path): the module, or the exception raised;
\* __import__('') raises ValueError('Empty module name'), a path that names
\* no module raises ImportError
import_module(module_path) ==
    IF module_path = << >> THEN [raised |-> Some("ValueError"), module |-> None]
    ELSE IF module_path \in Modules THEN [raised |-> None, module |-> Some(module_path)]
    ELSE [raised |-> Some("ImportError"), module |-> None]

(* ---------------------------------------------------------------------- *)
(* IntrospectorHelper.import_from_string                                   *)
(* ---------------------------------------------------------------------- *)
\* a result: the value returned, or the exception that left the function
Returns(v) == [raised |-> None, value |-> v]
Raises(e) == [raised |-> Some(e), value |-> None]

\* one iteration of `while name[0] == '.'` (lines 46-56): the loop state
\* after it, and whether it executed `return None`
strip_dot(name, module_path) ==
    LET idx == StrRFind(module_path, ".")
        past_top == idx = -1 /\ module_path = << >>
        module_path1 == IF idx = -1 THEN << >> ELSE StrPrefix(module_path, idx)
        name1 == Tail(name)
    IN  [returned_none |-> past_top \/ Len(name1) <= 1,
         name |-> IF past_top THEN name ELSE name1,
         module_path |-> IF past_top THEN module_path ELSE module_path1]

\* lines 58-59: the name the relative lookup continues with
qualify(name, module_path) ==
    IF module_path # << >> THEN module_path \o <<".">> \o name ELSE name

\* lines 65-71: import the module and fetch the attribute; only ImportError
\* is caught
try_import(module_path, class_name) ==
    LET m == import_module(module_path)
    IN  IF m.raised = Some("ImportError") THEN Returns(None)
        ELSE IF m.raised # None THEN Raises(m.raised[1])
        ELSE IF class_name \in DOMAIN ModuleAttrs(m.module[1])
             THEN Returns(Some(ModuleAttrs(m.module[1])[class_name]))
             ELSE Returns(None)

\* lines 62-71
split_and_import(name) ==
    LET parts == StrSplit(name, ".")
    IN  try_import(StrJoin(ButLast(parts), "."), parts[Len(parts)])

\* the loop of lines 45-56 and what follows it
RECURSIVE relative_lookup(_, _)
relative_lookup(name, module_path) ==
    IF name[1] = "."
    THEN LET it == strip_dot(name, module_path)
         IN  IF it.returned_none THEN Returns(None)
             ELSE relative_lookup(it.name, it.module_path)
    ELSE split_and_import(qualify(name, module_path))

\* import_from_string(name, callback); callback is None or Some(handler's
\* __module__)
import_from_string(name, callback) ==
    IF name = << >> \/ callback = None THEN Returns(None)
    ELSE IF StrFind(name, ".") = -1 THEN try_import(callback[1], name)
    ELSE IF name[1] = "." THEN relative_lookup(name, callback[1])
    ELSE split_and_import(name)

(* ---------------------------------------------------------------------- *)
(* docparsers.py: what both parsers share                                  *)
(* ---------------------------------------------------------------------- *)
\* the argument of parse: None, a str, or a value that is not text
NoDoc == [type |-> "NoneType", text |-> << >>]
StrDoc(text) == [type |-> "str", text |-> text]
NonTextDoc == [type |-> "int", text |-> << >>]

\* the dict parse starts from
BaseRtn == [query |-> None, description |-> None, summary |-> None]

unparseable_none_only(doc) == doc.type = "NoneType"

\* `not doc or not isinstance(doc, str)`
unparseable(doc) == doc.type # "str" \/ doc.text = << >>

first_line_only(description) == StrSplit(description, "\n")[1]

\* description.split("\n")[0].split(".")[0]
first_sentence(description) == StrSplit(StrSplit(description, "\n")[1], ".")[1]

\* django.contrib.admindocs.utils.trim_docstring
trim_docstring(docstring) ==
    IF docstring = << >> \/ Strip(docstring) = << >> THEN << >>
    ELSE LET lines == SplitLines(docstring)
             inked == SelectSeq(lines, LAMBDA line : LStrip(line) # << >>)
             indent == MinOf([i \in DOMAIN inked |-> IndentOf(inked[i])])
             trimmed == [i \in DOMAIN lines |->
                            IF i = 1 THEN LStrip(lines[1])
                            ELSE RStrip(DropFirst(lines[i], Min2(indent, Len(lines[i]))))]
         IN  Strip(StrJoin(trimmed, "\n"))

(* ---------------------------------------------------------------------- *)
(* SimpleDocumentationParser                                               *)
(* ---------------------------------------------------------------------- *)
ParamSeparator == <<" ", "-", "-", " ">>
CutMarker == <<"-", "-">>

is_param_line_lenient(line) == Len(SplitSub(line, ParamSeparator)) >= 2

\* lines 26-27: `param = line.split(' -- ')`, `len(param) == 2`
is_param_line(line) == Len(SplitSub(line, ParamSeparator)) = 2

\* lines 28-31
query_param(line) ==
    LET param == SplitSub(line, ParamSeparator)
    IN  [paramType |-> "query", name |-> Strip(param[1]),
         description |-> Strip(param[2]), dataType |-> << >>]

\* SimpleDocumentationParser._extract_query_params
extract_query_params(doc) ==
    LET kept == SelectSeq(StrSplit(doc, "\n"), is_param_line)
    IN  [i \in DOMAIN kept |-> query_param(kept[i])]

\* line 44: the line ends the description
is_cut_off(line) == FindSub(Strip(line), CutMarker, 0) # -1

\* SimpleDocumentationParser.strip_params_from_docstring
strip_params_from_docstring(docstring) ==
    LET split_lines == StrSplit(trim_docstring(docstring), "\n")
        cuts == {i \in DOMAIN split_lines : is_cut_off(split_lines[i])}
        cut_off == IF cuts = {} THEN Len(split_lines)
                   ELSE (CHOOSE i \in cuts : \A j \in cuts : i <= j) - 1
    IN  Strip(StrJoin(SubSeq(split_lines, 1, cut_off), "\n"))

\* SimpleDocumentationParser.parse
simple_parse(doc) ==
    IF unparseable(doc) THEN BaseRtn
    ELSE LET description == strip_params_from_docstring(doc.text)
         IN  [query |-> Some(extract_query_params(doc.text)),
              description |-> Some(description),
              summary |-> Some(first_sentence(description))]

(* ---------------------------------------------------------------------- *)
(* RstLikeDocumentationParser                                              *)
(* ---------------------------------------------------------------------- *)
\* sys.maxint
maxint == 2147483647

\* the names the parser compares line names with, and the dict key of each
NameSerializer == <<"s", "e", "r", "i", "a", "l", "i", "z", "e", "r">>
NameDeserializer == <<"d", "e">> \o NameSerializer
NameQuery == <<"q", "u", "e", "r", "y">>
NamePost == <<"p", "o", "s", "t">>
NameRequired == <<"r", "e", "q", "u", "i", "r", "e", "d">>
NameEnum == <<"e", "n", "u", "m">>
NameMinimum == <<"m", "i", "n", "i", "m", "u", "m">>
NameMaximum == <<"m", "a", "x", "i", "m", "u", "m">>

variable_names == {NameDeserializer, NameSerializer}
list_names == {NameQuery, NamePost}

KeyOf(name) ==
    CASE name = NameSerializer -> "serializer"
      [] name = NameDeserializer -> "deserializer"
      [] name = NameQuery -> "query"
      [] name = NamePost -> "post"
      [] name = NameRequired -> "required"
      [] name = NameEnum -> "enum"
      [] name = NameMinimum -> "minimum"
      [] OTHER -> "maximum"

\* RstLikeDocumentationParser._parse_variable: the name ('' for none) and
\* the value (None for none) of a stripped line
parse_variable(line) ==
    IF Len(line) > 2 /\ line[1] = ":" /\ FindSub(line, <<":">>, 2) > 1
    THEN LET val_idx == FindSub(line, <<":">>, 2)
             val == Strip(StrSuffix(line, val_idx + 1))
         IN  [name |-> Strip(StrLower(SubSeq(line, 2, val_idx))),
              val |-> IF val = << >> THEN None ELSE Some(val)]
    ELSE [name |-> << >>, val |-> None]

\* the parser's locals before the first line (lines 63-75); False is None
RstStart ==
    [rtn |-> [BaseRtn EXCEPT !.description = << >>],
     collect_desc |-> TRUE, ignore_indent |-> maxint,
     item_list |-> None, item_list_indent |-> None, item_list_item_indent |-> None,
     last_indent |-> -1, last_indents |-> << >>, raised |-> None]

reaches_lenient(indent, current_indent) ==
    IF indent = None THEN 0 >= current_indent ELSE indent[1] > current_indent

\* `indent >= current_indent`, where indent is a number or False (= 0)
reaches(indent, current_indent) ==
    IF indent = None THEN 0 >= current_indent ELSE indent[1] >= current_indent

\* lines 88-89: `while current_indent < last_indent: last_indent =
\* last_indents.pop()`; pop of an empty list raises IndexError
RECURSIVE pop_indents(_, _, _)
pop_indents(current_indent, last_indent, last_indents) ==
    IF current_indent < last_indent
    THEN IF last_indents = << >>
         THEN [raised |-> Some("IndexError"), last_indents |-> last_indents]
         ELSE pop_indents(current_indent, last_indents[Len(last_indents)],
                          ButLast(last_indents))
    ELSE [raised |-> None, last_indents |-> last_indents]

\* the list the section collects and its last item
ItemList(st) == st.rtn[st.item_list[1]][1]
LastItem(st) == ItemList(st)[Len(ItemList(st))]

\* the section's list with its last item replaced
WithLastItem(st, item) ==
    [st EXCEPT !.rtn[st.item_list[1]] =
        Some([ItemList(st) EXCEPT ![Len(ItemList(st))] = item])]

\* lines 128-139: the item a line starts
new_item(line) ==
    LET type_index == FindSub(line, <<":">>, 1)
    IN  IF type_index > 0
        THEN [name |-> Strip(StrPrefix(line, type_index)),
              type |-> Some(Strip(StrSuffix(line, type_index + 1))),
              description |-> << >>]
        ELSE [name |-> line, type |-> None, description |-> << >>]

\* lines 145-150: the item with the option of the line set
set_option(item, line_name, line_val) ==
    LET i1 == IF line_name = NameRequired THEN DictSet(item, "required", TRUE) ELSE item
        i2 == IF line_name = NameEnum /\ line_val # None
              THEN DictSet(i1, "enum",
                           LET xs == StrSplit(line_val[1], ",")
                           IN  [k \in DOMAIN xs |-> Strip(xs[k])])
              ELSE i1
    IN  IF line_name \in {NameMinimum, NameMaximum} /\ line_val # None
             /\ IsDigit(line_val[1])
        THEN DictSet(i2, KeyOf(line_name), ToInt(line_val[1]))
        ELSE i2

no_description_yet_always(item) == TRUE

\* line 144: `len(item_list_item['description']) == 0`
no_description_yet(item) == Len(item.description) = 0

\* lines 104-153: a stripped line that is neither blank nor ignored
rst_content(st, line, current_indent) ==
    IF st.item_list_indent = None
    THEN LET v == parse_variable(line)
         IN  IF v.name # << >>
             THEN IF v.name \in variable_names
                  THEN [st EXCEPT !.rtn = DictSet(@, KeyOf(v.name), v.val)]
                  ELSE IF v.name \in list_names
                  THEN [st EXCEPT !.rtn = DictSet(@, KeyOf(v.name), Some(<< >>)),
                                  !.item_list = Some(KeyOf(v.name)),
                                  !.item_list_indent = Some(current_indent)]
                  ELSE [st EXCEPT !.ignore_indent = current_indent,
                                  !.collect_desc = FALSE]
             ELSE IF st.collect_desc
                  THEN [st EXCEPT !.rtn.description = Append(@, line)]
                  ELSE st
    ELSE IF st.item_list_item_indent = None
    THEN [st EXCEPT !.rtn[st.item_list[1]] = Some(Append(@[1], new_item(line))),
                    !.item_list_item_indent = Some(current_indent)]
    ELSE LET v == parse_variable(line)
             item == LastItem(st)
         IN  IF no_description_yet(item) /\ v.name # << >>
             THEN WithLastItem(st, set_option(item, v.name, v.val))
             ELSE WithLastItem(st, [item EXCEPT !.description = Append(@, line)])

\* lines 76-153: one round of `for line in lines`
rst_line(st, line) ==
    IF Strip(line) = << >>
    THEN IF st.item_list_indent # None /\ st.item_list_item_indent # None
         THEN WithLastItem(st, [LastItem(st) EXCEPT !.description = Append(@, << >>)])
         ELSE IF st.collect_desc
         THEN [st EXCEPT !.rtn.description = Append(@, << >>)]
         ELSE st
    ELSE LET current_indent == IndentOf(line)
             pushed == IF current_indent > st.last_indent
                       THEN Append(st.last_indents, st.last_indent)
                       ELSE st.last_indents
             popped == pop_indents(current_indent, st.last_indent, pushed)
         IN  IF popped.raised # None
             THEN [st EXCEPT !.raised = popped.raised,
                             !.last_indents = popped.last_indents]
             ELSE LET close_list == reaches(st.item_list_indent, current_indent)
                      close_item == reaches(st.item_list_item_indent, current_indent)
                      st1 == [st EXCEPT
                                 !.last_indents = popped.last_indents,
                                 !.last_indent = current_indent,
                                 !.item_list = IF close_list THEN None ELSE @,
                                 !.item_list_indent = IF close_list THEN None ELSE @,
                                 !.item_list_item_indent =
                                     IF close_item THEN None ELSE @]
                  IN  IF current_indent > st1.ignore_indent THEN st1
                      ELSE rst_content(st1, Strip(line), current_indent)

\* `not x` for a list value of the dict: missing, None or empty
ListFalsy(rtn, key) ==
    key \notin DOMAIN rtn \/ rtn[key] = None \/ rtn[key][1] = << >>

\* RstLikeDocumentationParser._normalize_params
normalize_params(params) ==
    [i \in DOMAIN params |->
        LET param == DictSet(params[i], "paramType", "form")
        IN  IF /\ ("type" \notin DOMAIN param \/ param["type"] \in {None, Some(<< >>)})
               /\ ("dataType" \notin DOMAIN param \/ param["dataType"] = << >>)
            THEN DictSet(DictSet(param, "type", Some(<< >>)), "dataType", << >>)
            ELSE param]

\* lines 159-164 and 168-171 for one list of the dict
normalize_list(rtn, key) ==
    IF ListFalsy(rtn, key) THEN rtn
    ELSE [rtn EXCEPT ![key] =
             Some(normalize_params(
                 [i \in DOMAIN rtn[key][1] |->
                     [rtn[key][1][i] EXCEPT
                         !.description = Strip(StrJoin(@, "\n"))]]))]

\* RstLikeDocumentationParser._normalize
normalize(rtn) ==
    LET description == Strip(StrJoin(rtn.description, "\n"))
        rtn1 == [rtn EXCEPT !.description = Some(description),
                            !.summary = Some(first_sentence(description))]
    IN  normalize_list(normalize_list(rtn1, "query"), "post")

\* the loop over the lines, stopping at an exception
RECURSIVE rst_lines(_, _)
rst_lines(st, lines) ==
    IF lines = << >> \/ st.raised # None THEN st
    ELSE rst_lines(rst_line(st, Head(lines)), Tail(lines))

\* RstLikeDocumentationParser.parse: the dict returned, or the exception
rst_parse(doc) ==
    IF unparseable(doc) THEN [raised |-> None, rtn |-> BaseRtn]
    ELSE LET st == rst_lines(RstStart, StrSplit(doc.text, "\n"))
         IN  IF st.raised # None THEN [raised |-> st.raised, rtn |-> BaseRtn]
             ELSE [raised |-> None, rtn |-> normalize(st.rtn)]

(* ---------------------------------------------------------------------- *)
(* Handlers, parsed docstrings and the introspectors                       *)
(* ---------------------------------------------------------------------- *)
\* str.upper() and str.lower() on the method names in use
UpperCase ==
    [get |-> "GET", post |-> "POST", put |-> "PUT", patch |-> "PATCH",
     delete |-> "DELETE", options |-> "OPTIONS"]

LowerCase ==
    [GET |-> "get", POST |-> "post", PUT |-> "put", PATCH |-> "patch",
     DELETE |-> "delete", OPTIONS |-> "options"]

upper(str) == IF str \in DOMAIN UpperCase THEN UpperCase[str] ELSE str
lower(str) == IF str \in DOMAIN LowerCase THEN LowerCase[str] ELSE str

\* documentation_parser.parse(None): no override key
EmptyDoc == << >>

\* a parsed docstring with its serializer / deserializer overrides; an
\* override is Some(string), and None leaves the key out
ParsedDoc(ser, deser) ==
    LET d1 == IF ser = None THEN EmptyDoc ELSE DictSet(EmptyDoc, "serializer", ser)
    IN  IF deser = None THEN d1 ELSE DictSet(d1, "deserializer", deser)

\* `key in documentation and documentation[key] is not None`
DocHas(documentation, key) ==
    key \in DOMAIN documentation /\ documentation[key] # None

\* one of the two steps of resolve_documentation_information (lines 25-28):
\* documentation[key] = import_from_string(documentation[key], callback)
resolve_key(callback, r, key) ==
    IF r.raised # None THEN r
    ELSE IF key \in DOMAIN r.documentation /\ r.documentation[key] # None
    THEN LET found == import_from_string(r.documentation[key][1], Some(callback.module))
         IN  IF found.raised # None
             THEN [raised |-> found.raised, documentation |-> r.documentation]
             ELSE [raised |-> None,
                   documentation |-> DictSet(r.documentation, key, found.value)]
    ELSE r

\* IntrospectorHelper.resolve_documentation_information: the documentation
\* with its string overrides replaced by what they import, or the exception
resolve_documentation_information(callback, documentation) ==
    resolve_key(callback,
                resolve_key(callback,
                            [raised |-> None, documentation |-> documentation],
                            "serializer"),
                "deserializer")

\* BaseViewIntrospector.__init__
BaseViewIntrospector(callback, path, pattern) ==
    LET r == resolve_documentation_information(callback, callback.doc)
    IN  [raised |-> r.raised,
         self |-> [callback |-> callback, path |-> path, pattern |-> pattern,
                   documentation |-> r.documentation]]

retrieve_docstring_case_sensitive(callback, method) ==
    IF method \in DOMAIN callback.attrs
    THEN callback.attrs[method]
    ELSE EmptyDoc

\* BaseMethodIntrospector.retrieve_docstring followed by parse: the parsed
\* docstring of the handler attribute named str(self.method).lower()
retrieve_docstring(callback, method) ==
    IF lower(method) \in DOMAIN callback.attrs
    THEN callback.attrs[lower(method)]
    ELSE EmptyDoc

\* BaseMethodIntrospector.__init__ (APIViewMethodIntrospector has no other)
BaseMethodIntrospector(view_introspector, method) ==
    LET r == resolve_documentation_information(
                 view_introspector.callback,
                 retrieve_docstring(view_introspector.callback, method))
    IN  [raised |-> r.raised,
         self |-> [class |-> "APIViewMethodIntrospector", method |-> method,
                   http_method |-> None, parent |-> view_introspector,
                   documentation |-> r.documentation]]

\* ViewSetMethodIntrospector.__init__(view_introspector, method, http_method)
ViewSetMethodIntrospector(view_introspector, method, http_method) ==
    LET base == BaseMethodIntrospector(view_introspector, method)
    IN  [raised |-> base.raised,
         self |-> [base.self EXCEPT !.class = "ViewSetMethodIntrospector",
                                    !.http_method = Some(upper(http_method))]]

get_http_method_of_base(self) == self.method

\* get_http_method of a method introspector, by its class
get_http_method(self) ==
    IF self.class = "ViewSetMethodIntrospector" THEN self.http_method[1]
    ELSE self.method

\* BaseViewIntrospector.get_serializer_class: the handler's own
\* get_serializer_class() when it has one (None or Some(class))
view_get_serializer_class(self) == self.callback.serializer_class

view_get_deserializer_class_undocumented(self) == view_get_serializer_class(self)

\* BaseViewIntrospector.get_deserializer_class
view_get_deserializer_class(self) ==
    IF DocHas(self.documentation, "deserializer")
    THEN self.documentation["deserializer"]
    ELSE view_get_serializer_class(self)

\* BaseMethodIntrospector.get_serializer_class
method_get_serializer_class(self) ==
    IF DocHas(self.documentation, "serializer")
    THEN self.documentation["serializer"]
    ELSE view_get_serializer_class(self.parent)

\* BaseMethodIntrospector.get_deserializer_class
method_get_deserializer_class(self) ==
    IF DocHas(self.documentation, "deserializer")
    THEN self.documentation["deserializer"]
    ELSE IF DocHas(self.documentation, "serializer")
    THEN self.documentation["serializer"]
    ELSE view_get_deserializer_class(self.parent)

resolve_methods_lenient(self) ==
    [raised |-> None,
     methods |-> IF self.pattern.actions = None THEN << >> ELSE self.pattern.actions[1]]

\* ViewSetIntrospector._resolve_methods: the action map bound in the route
\* matcher's closure, or RuntimeError when the closure has none
resolve_methods(self) ==
    IF self.pattern.actions = None
    THEN [raised |-> Some("RuntimeError"), methods |-> << >>]
    ELSE [raised |-> None, methods |-> self.pattern.actions[1]]

\* what __iter__ iterates over: the (http method, method) pairs still to be
\* yielded; an APIView's allowed_methods in order, a view set's action map
iter_methods(self) ==
    IF self.callback.kind = "ViewSet"
    THEN resolve_methods(self)
    ELSE [raised |-> None,
          methods |-> [i \in DOMAIN self.callback.allowed_methods |->
                          <<self.callback.allowed_methods[i],
                            self.callback.allowed_methods[i]>>]]

\* the method introspector __iter__ yields for the pair <<key, method>>
yield_method(self, pair) ==
    IF self.callback.kind = "ViewSet"
    THEN ViewSetMethodIntrospector(self, pair[2], pair[1])
    ELSE BaseMethodIntrospector(self, pair[2])

\* seq without its i-th element
RemoveAt(seq, i) == SubSeq(seq, 1, i - 1) \o SubSeq(seq, i + 1, Len(seq))

\* no introspector exists
IntroIdle ==
    [pc |-> "idle", api |-> << >>, view |-> None, remaining |-> << >>,
     yielded |-> << >>, keys |-> << >>, raised |-> None]

\* no generate(apis) call is active
DgIdle ==
    [pc |-> "idle", apis |-> << >>, idx |-> 0, apis_docs |-> << >>,
     models_docs |-> EmptyDict, operations |-> << >>, raised |-> None,
     result |-> None, yieldedLog |-> << >>, modelsLog |-> << >>]

\* no parse(doc) call is active
ParserIdle ==
    [pc |-> "idle", strategy |-> "none", doc |-> NoDoc, lines |-> << >>,
     st |-> RstStart, result |-> None, raised |-> None]

\* no call of import_from_string is active; arg is the name the call was
\* given, name the local the loop rebinds
IfsIdle ==
    [pc |-> "idle", arg |-> << >>, name |-> << >>, callback |-> None,
     module_path |-> << >>, class_name |-> << >>, result |-> Returns(None)]

\* the route collector has not been called
RcIdle ==
    [pc |-> "idle", patterns |-> << >>, filter_path |-> None,
     exclude_namespaces |-> {}, apis |-> << >>, namespace |-> None,
     apis_excluding |-> << >>]

\* no generate invocation exists
GensIdle == [apis |-> << >>, request |-> << >>, calls |-> << >>]

(* ---------------------------------------------------------------------- *)
(* One ModelGenerator driven by arbitrary register() and generate() calls  *)
(* ---------------------------------------------------------------------- *)
Init ==
    /\ edges \in EdgeSets
    /\ serializers = EmptyDict
    /\ models = EmptyDict
    /\ pc = "idle"
    /\ returned = None
    /\ registered = {}
    /\ reRegistered = FALSE
    /\ expandCount = EmptyDict
    /\ iterations = 0
    /\ ifs = IfsIdle
    /\ intro = IntroIdle
    /\ dg = DgIdle
    /\ prs = ParserIdle
    /\ rc = RcIdle
    /\ gens = GensIdle

\* a caller registers a serializer class
Register ==
    /\ pc = "idle"
    /\ \E t \in RootTypes :
        LET mg == register([serializers |-> serializers, models |-> models],
                           SerializerClass(t))
        IN  /\ serializers' = mg.serializers
            /\ models' = mg.models
            /\ registered' = registered \cup {t}
            /\ reRegistered' = (reRegistered \/ TypeNames[t] \in DOMAIN serializers
                                              \/ TypeNames[t] \in DOMAIN models)
    /\ returned' = None
    /\ UNCHANGED <<edges, pc, expandCount, iterations, ifs, intro, dg, prs, rc, gens>>

\* a caller calls generate()
GenerateCall ==
    /\ pc = "idle"
    /\ pc' = "generate"
    /\ returned' = None
    /\ iterations' = 0
    /\ UNCHANGED <<edges, serializers, models, registered, reRegistered, expandCount,
                   ifs, intro, dg, prs, rc, gens>>

\* one iteration of `while len(self.serializers) > 0`
GenerateIter ==
    /\ pc = "generate"
    /\ DOMAIN serializers # {}
    /\ \E id \in DOMAIN serializers :
        LET serializer == serializers[id]
            rest == popitem(serializers, id)
        IN  IF already_generated(id, models)
            THEN /\ serializers' = rest
                 /\ UNCHANGED <<models, expandCount>>
            ELSE \E r \in {generate_model(id, serializer,
                                          [serializers |-> rest, models |-> models])} :
                     /\ serializers' = r.mg.serializers
                     /\ models' = DictSet(r.mg.models, id, r.model)
                     /\ expandCount' = Bump(expandCount, id)
    /\ iterations' = (IF iterations < IterCap THEN iterations + 1 ELSE iterations)
    /\ UNCHANGED <<edges, pc, returned, registered, reRegistered, ifs, intro, dg, prs, rc, gens>>

\* the loop ends: `return self.models`
GenerateReturn ==
    /\ pc = "generate"
    /\ DOMAIN serializers = {}
    /\ pc' = "idle"
    /\ returned' = Some(models)
    /\ UNCHANGED <<edges, serializers, models, registered, reRegistered, expandCount,
                   iterations, ifs, intro, dg, prs, rc, gens>>

Next == Register \/ GenerateCall \/ GenerateIter \/ GenerateReturn

Spec == Init /\ [][Next]_vars

(* ---------------------------------------------------------------------- *)
(* Reference notions the registry properties are stated with               *)
(* ---------------------------------------------------------------------- *)
\* the classes t embeds: its declared fields that are serializers
Embedded(t) ==
    LET fields == DeclaredFields(t)
    IN  {fields[i].serializer[1].cls :
            i \in {j \in DOMAIN fields : fields[j].base = "BaseSerializer"}}

\* the classes reachable from the set S through embedded serializer fields
RECURSIVE Reachable(_)
Reachable(S) ==
    LET S2 == S \cup UNION {Embedded(t) : t \in S}
    IN  IF S2 = S THEN S ELSE Reachable(S2)

\* generate() on a fresh ModelGenerator, draining in a fixed order
RECURSIVE Drain(_)
Drain(mg) ==
    IF DOMAIN mg.serializers = {} THEN mg.models
    ELSE LET id == CHOOSE x \in DOMAIN mg.serializers : TRUE
             rest == [mg EXCEPT !.serializers = popitem(@, id)]
         IN  IF already_generated(id, mg.models) THEN Drain(rest)
             ELSE LET r == generate_model(id, mg.serializers[id], rest)
                  IN  Drain([r.mg EXCEPT !.models = DictSet(@, id, r.model)])

\* each class of S registered exactly once on a fresh ModelGenerator
RECURSIVE RegisterOnce(_, _)
RegisterOnce(mg, S) ==
    IF S = {} THEN mg
    ELSE LET t == CHOOSE x \in S : TRUE
         IN  RegisterOnce(register(mg, SerializerClass(t)), S \ {t})

GeneratedOnce(S) ==
    Drain(RegisterOnce([serializers |-> EmptyDict, models |-> EmptyDict], S))

(* ---------------------------------------------------------------------- *)
(* Properties of the schema registry                                       *)
(* ---------------------------------------------------------------------- *)

\* C1: register is idempotent by id. Registering a class that is already
\* pending or already expanded leaves the generator as it is; the map
\* generate() returns after any sequence of register calls is the map it
\* returns when each class is registered once, and every document in it
\* carries its key as 'id', cycles in the type graph included.
C1_RegisterIdempotent ==
    /\ \A t \in Types :
          LET mg == [serializers |-> serializers, models |-> models]
          IN  (\/ TypeNames[t] \in DOMAIN models
               \/ (TypeNames[t] \in DOMAIN serializers
                     /\ serializers[TypeNames[t]] = SerializerClass(t)))
              => register(mg, SerializerClass(t)) = mg
    /\ returned # None =>
          /\ returned[1] = GeneratedOnce(registered)
          /\ \A k \in DOMAIN returned[1] : returned[1][k].id = k

\* a generate() result over a two-cycle, after a repeated registration
C1_Witness ==
    /\ returned # None
    /\ reRegistered
    /\ \E a, b \in Types :
          /\ a # b /\ b \in Embedded(a) /\ a \in Embedded(b)
          /\ {TypeNames[a], TypeNames[b]} \subseteq DOMAIN returned[1]

\* C2: generate() terminates for every type graph, self-embedding classes
\* and cycles included: a call makes at most one loop iteration per class
\* pending at the call and per nested field declared, and the pending set
\* is empty when it returns.
C2_GenerateTerminates ==
    /\ iterations <= NumTypes + Cardinality(edges)
    /\ returned # None => DOMAIN serializers = {}

\* generate() has returned after three iterations over a cycle of three
\* classes, one of them registered
C2_Witness ==
    /\ pc = "idle" /\ returned # None /\ DOMAIN serializers = {}
    /\ iterations = 3
    /\ \E a, b, c \in Types :
          /\ a # b /\ b # c /\ a # c
          /\ b \in Embedded(a) /\ c \in Embedded(b) /\ a \in Embedded(c)
          /\ registered = {a}
          /\ {TypeNames[a], TypeNames[b], TypeNames[c]} = DOMAIN returned[1]

\* C3: within one ModelGenerator every schema id is expanded at most once,
\* whatever the interleaving of register and generate calls: the ids in the
\* output map are exactly the ids expanded, each once.
C3_ExpandedAtMostOnce ==
    /\ DOMAIN expandCount = DOMAIN models
    /\ \A id \in DOMAIN expandCount : expandCount[id] = 1

\* a class that embeds itself was expanded, re-registered, and generate()
\* has returned
C3_Witness ==
    /\ returned # None
    /\ reRegistered
    /\ \E t \in Types :
          /\ t \in Embedded(t)
          /\ TypeNames[t] \in DOMAIN expandCount
          /\ expandCount[TypeNames[t]] = 1

\* C4: the map generate() returns has a document for every registered class
\* and every class reachable from one through embedded serializer fields,
\* and for no other class.
C4_TransitiveClosure ==
    returned # None =>
        DOMAIN returned[1] = {TypeNames[t] : t \in Reachable(registered)}

\* one class registered, two more reached only through its fields
C4_Witness ==
    /\ returned # None
    /\ Cardinality(registered) = 1
    /\ Cardinality(DOMAIN returned[1]) = 3

(* ---------------------------------------------------------------------- *)
(* import_from_string step by step, for every override string              *)
(* ---------------------------------------------------------------------- *)
Components == {<<"p">>, <<"t">>, <<"x">>, NameAs, NameBs, NameC}

RECURSIVE Dots(_)
Dots(k) == IF k = 0 THEN << >> ELSE <<".">> \o Dots(k - 1)

\* the override strings: empty, or leading dots and a dotted path
OverrideStrings ==
    {<< >>} \cup
    {Dots(k) \o StrJoin(parts, ".") :
        k \in 0..MaxDots,
        parts \in UNION {[1..n -> Components] : n \in 1..MaxParts}}

\* no handler, a handler defined in p.t, a handler defined in p
Callbacks == {None, Some(ModPT), Some(ModP)}

InitImport ==
    /\ edges = {}
    /\ serializers = EmptyDict
    /\ models = EmptyDict
    /\ pc = "idle"
    /\ returned = None
    /\ registered = {}
    /\ reRegistered = FALSE
    /\ expandCount = EmptyDict
    /\ iterations = 0
    /\ \E name \in OverrideStrings, callback \in Callbacks :
          ifs = [IfsIdle EXCEPT !.pc = "call", !.arg = name, !.name = name,
                                !.callback = callback]
    /\ intro = IntroIdle
    /\ dg = DgIdle
    /\ prs = ParserIdle
    /\ rc = RcIdle
    /\ gens = GensIdle

\* lines 33-44: the guard and the choice of lookup
ImportCall ==
    /\ ifs.pc = "call"
    /\ ifs' = IF ifs.name = << >> \/ ifs.callback = None
              THEN [ifs EXCEPT !.pc = "done", !.result = Returns(None)]
              ELSE IF StrFind(ifs.name, ".") = -1
              THEN [ifs EXCEPT !.pc = "import", !.class_name = ifs.name,
                               !.module_path = ifs.callback[1]]
              ELSE IF ifs.name[1] = "."
              THEN [ifs EXCEPT !.pc = "loop", !.module_path = ifs.callback[1]]
              ELSE [ifs EXCEPT !.pc = "split"]
    /\ UNCHANGED <<mgVars, intro, dg, prs, rc, gens>>

\* lines 45-56: one iteration of the loop over the leading dots
ImportStripDot ==
    /\ ifs.pc = "loop"
    /\ ifs.name[1] = "."
    /\ LET it == strip_dot(ifs.name, ifs.module_path)
       IN  ifs' = IF it.returned_none
                  THEN [ifs EXCEPT !.pc = "done", !.result = Returns(None),
                                   !.name = it.name, !.module_path = it.module_path]
                  ELSE [ifs EXCEPT !.name = it.name, !.module_path = it.module_path]
    /\ UNCHANGED <<mgVars, intro, dg, prs, rc, gens>>

\* lines 58-59: the loop has ended
ImportQualify ==
    /\ ifs.pc = "loop"
    /\ ifs.name[1] # "."
    /\ ifs' = [ifs EXCEPT !.pc = "split", !.name = qualify(ifs.name, ifs.module_path)]
    /\ UNCHANGED <<mgVars, intro, dg, prs, rc, gens>>

\* lines 62-63: extract class and module
ImportSplit ==
    /\ ifs.pc = "split"
    /\ LET parts == StrSplit(ifs.name, ".")
       IN  ifs' = [ifs EXCEPT !.pc = "import",
                              !.module_path = StrJoin(ButLast(parts), "."),
                              !.class_name = parts[Len(parts)]]
    /\ UNCHANGED <<mgVars, intro, dg, prs, rc, gens>>

\* lines 65-71
ImportTry ==
    /\ ifs.pc = "import"
    /\ LET r == try_import(ifs.module_path, ifs.class_name)
       IN  ifs' = [ifs EXCEPT !.pc = IF r.raised = None THEN "done" ELSE "raised",
                              !.result = r]
    /\ UNCHANGED <<mgVars, intro, dg, prs, rc, gens>>

NextImport == ImportCall \/ ImportStripDot \/ ImportQualify \/ ImportSplit \/ ImportTry

SpecImport == InitImport /\ [][NextImport]_vars

\* C10: import_from_string returns the located class or None and never
\* raises, whatever the override string and the handler's module: a bad
\* module path, a missing class name, and relative dots that climb to or
\* past the top of the handler's module path all give None.
C10_NeverRaises ==
    ifs.pc \in {"done", "raised"} =>
        /\ ifs.result.raised = None
        /\ ifs.pc = "done"

(* ---------------------------------------------------------------------- *)
(* One endpoint's introspector, constructed and iterated                   *)
(* ---------------------------------------------------------------------- *)
\* the override strings put in docstrings: a class of the handler's module,
\* a class the module lacks, and a relative name two levels up
NameZz == <<"Z", "z">>
NameUpUpAs == <<".", ".">> \o NameAs
DocOverrides == {None, Some(NameAs), Some(NameBs), Some(NameZz), Some(NameUpUpAs)}

\* what the handler's own get_serializer_class() returns
DefaultSerializers == {None} \cup {Some(SerializerClass(t)) : t \in RootTypes}

\* an APIView subclass defined in p.t; `post` carries the method docstring
APIViewHandler(cdoc, mdoc, serializer_class, allowed_methods) ==
    [kind |-> "APIView", module |-> ModPT, doc |-> cdoc,
     attrs |-> [get |-> EmptyDoc, post |-> mdoc, options |-> EmptyDoc],
     allowed_methods |-> allowed_methods, serializer_class |-> serializer_class]

\* a ViewSet subclass defined in p.t; `create` and `update` carry the
\* method docstring
ViewSetHandler(cdoc, mdoc, serializer_class) ==
    [kind |-> "ViewSet", module |-> ModPT, doc |-> cdoc,
     attrs |-> [list |-> EmptyDoc, create |-> mdoc, retrieve |-> EmptyDoc,
                update |-> mdoc, destroy |-> EmptyDoc],
     allowed_methods |-> << >>, serializer_class |-> serializer_class]

\* callback().allowed_methods of an APIView: OPTIONS is always allowed
AllowedMethods == {<<"OPTIONS">>, <<"GET", "POST", "OPTIONS">>}

\* the action maps routers bind; None is a route matcher without one
ActionMaps ==
    {None,
     Some(<<<<"get", "list">>, <<"post", "create">>>>),
     Some(<<<<"get", "retrieve">>, <<"put", "update">>, <<"delete", "destroy">>>>)}

\* an entry of apis: the route's path, its matcher and its handler
ApiAt(path, callback, actions) ==
    [path |-> path, pattern |-> [actions |-> actions], callback |-> callback]

Api(callback, actions) == ApiAt(<<"/", "a">>, callback, actions)

IntroApis ==
    LET docs == {ParsedDoc(s, d) : s \in DocOverrides, d \in DocOverrides}
    IN  {Api(APIViewHandler(c, m, sc, am), None) :
            c \in docs, m \in docs, sc \in DefaultSerializers, am \in AllowedMethods}
        \cup
        {Api(ViewSetHandler(c, m, sc), a) :
            c \in docs, m \in docs, sc \in DefaultSerializers, a \in ActionMaps}

MgIdle ==
    /\ edges = {}
    /\ serializers = EmptyDict
    /\ models = EmptyDict
    /\ pc = "idle"
    /\ returned = None
    /\ registered = {}
    /\ reRegistered = FALSE
    /\ expandCount = EmptyDict
    /\ iterations = 0

InitIntrospect ==
    /\ MgIdle
    /\ ifs = IfsIdle
    /\ \E api \in IntroApis : intro = [IntroIdle EXCEPT !.pc = "new", !.api = api]
    /\ dg = DgIdle
    /\ prs = ParserIdle
    /\ rc = RcIdle
    /\ gens = GensIdle

\* DocumentationGenerator._resolve_api_introspector: the view introspector
\* is constructed, which resolves the class-level overrides
IntroConstruct ==
    /\ intro.pc = "new"
    /\ \E v \in {BaseViewIntrospector(intro.api.callback, intro.api.path,
                                      intro.api.pattern)} :
          intro' = IF v.raised # None
                   THEN [intro EXCEPT !.pc = "raised", !.raised = v.raised]
                   ELSE [intro EXCEPT !.pc = "constructed", !.view = Some(v.self)]
    /\ UNCHANGED <<mgVars, ifs, dg, prs, rc, gens>>

\* __iter__ up to its loop: the methods to iterate over
IntroIter ==
    /\ intro.pc = "constructed"
    /\ \E m \in {iter_methods(intro.view[1])} :
          intro' = IF m.raised # None
                   THEN [intro EXCEPT !.pc = "raised", !.raised = m.raised]
                   ELSE [intro EXCEPT !.pc = "iter", !.remaining = m.methods]
    /\ UNCHANGED <<mgVars, ifs, dg, prs, rc, gens>>

\* the next method introspector is yielded; a view set's action map is a
\* dict, iterated in any order
IntroYield ==
    /\ intro.pc = "iter"
    /\ intro.remaining # << >>
    /\ \E i \in DOMAIN intro.remaining :
          /\ intro.api.callback.kind = "ViewSet" \/ i = 1
          /\ \E mi \in {yield_method(intro.view[1], intro.remaining[i])} :
                intro' = IF mi.raised # None
                         THEN [intro EXCEPT !.pc = "raised", !.raised = mi.raised]
                         ELSE [intro EXCEPT
                                  !.remaining = RemoveAt(@, i),
                                  !.yielded = Append(@, mi.self),
                                  !.keys = Append(@, intro.remaining[i][1])]
    /\ UNCHANGED <<mgVars, ifs, dg, prs, rc, gens>>

\* the iteration is exhausted
IntroStop ==
    /\ intro.pc = "iter"
    /\ intro.remaining = << >>
    /\ intro' = [intro EXCEPT !.pc = "done"]
    /\ UNCHANGED <<mgVars, ifs, dg, prs, rc, gens>>

NextIntrospect == IntroConstruct \/ IntroIter \/ IntroYield \/ IntroStop

SpecIntrospect == InitIntrospect /\ [][NextIntrospect]_vars

\* the first element of seq that is not None, None when there is none
RECURSIVE FirstPresent(_)
FirstPresent(seq) ==
    IF seq = << >> THEN None
    ELSE IF Head(seq) # None THEN Head(seq)
    ELSE FirstPresent(Tail(seq))

\* the resolved override of a documentation, None when absent
Override(documentation, key) ==
    IF key \in DOMAIN documentation THEN documentation[key] ELSE None

\* C7: iterating the introspector of a view set bound with an action map
\* yields exactly one method descriptor per key of the map, and each
\* descriptor's get_http_method() is its key uppercased, never the action
\* name.
C7_ViewSetOnePerKey ==
    (intro.api # << >> /\ intro.api.callback.kind = "ViewSet"
        /\ intro.api.pattern.actions # None) =>
        LET actions == intro.api.pattern.actions[1]
        IN  /\ \A i \in DOMAIN intro.yielded :
                  /\ get_http_method(intro.yielded[i]) = UpperCase[intro.keys[i]]
                  /\ \E j \in DOMAIN actions :
                        /\ actions[j][1] = intro.keys[i]
                        /\ intro.yielded[i].method = actions[j][2]
                        /\ get_http_method(intro.yielded[i]) # actions[j][2]
            /\ \A i, j \in DOMAIN intro.keys :
                  intro.keys[i] = intro.keys[j] => i = j
            /\ intro.pc = "done" =>
                  {intro.keys[i] : i \in DOMAIN intro.keys}
                      = {actions[j][1] : j \in DOMAIN actions}

\* {get: list, post: create} iterated to the end: two descriptors, GET and
\* POST
C7_Witness ==
    /\ intro.pc = "done"
    /\ intro.api.callback.kind = "ViewSet"
    /\ intro.api.pattern.actions = Some(<<<<"get", "list">>, <<"post", "create">>>>)
    /\ Len(intro.yielded) = 2
    /\ {get_http_method(intro.yielded[i]) : i \in 1..2} = {"GET", "POST"}

\* C8: the response serializer of every yielded method is the first
\* present of: the method-level serializer override, the class-level
\* serializer override, the handler's default serializer.
C8_SerializerPriority ==
    \A i \in DOMAIN intro.yielded :
        LET self == intro.yielded[i]
        IN  method_get_serializer_class(self) =
                FirstPresent(<<Override(self.documentation, "serializer"),
                               Override(self.parent.documentation, "serializer"),
                               self.parent.callback.serializer_class>>)

\* C9: whenever the class-level documentation has a deserializer override
\* and the method-level documentation has none, get_deserializer_class
\* returns the class-level deserializer, also when the method-level
\* documentation carries a serializer override.
C9_ClassDeserializerFirst ==
    \A i \in DOMAIN intro.yielded :
        LET self == intro.yielded[i]
        IN  (/\ Override(self.parent.documentation, "deserializer") # None
             /\ Override(self.documentation, "deserializer") = None)
            => method_get_deserializer_class(self)
                   = Override(self.parent.documentation, "deserializer")

\* C9 as the code has it: a method-level serializer override is consulted
\* before the class-level deserializer override. With no method-level
\* deserializer override, get_deserializer_class returns the method-level
\* serializer override when there is one, and the class-level deserializer
\* override when the method level has neither override.
C9_MethodLevelFirst ==
    \A i \in DOMAIN intro.yielded :
        LET self == intro.yielded[i]
            m_ser == Override(self.documentation, "serializer")
            c_deser == Override(self.parent.documentation, "deserializer")
        IN  Override(self.documentation, "deserializer") = None =>
                /\ m_ser # None => method_get_deserializer_class(self) = m_ser
                /\ (m_ser = None /\ c_deser # None)
                      => method_get_deserializer_class(self) = c_deser

\* a yielded method without overrides of its own, under a class whose
\* deserializer override resolved to a class other than the handler's
\* default serializer
C9_Witness ==
    \E i \in DOMAIN intro.yielded :
        LET self == intro.yielded[i]
            c_deser == Override(self.parent.documentation, "deserializer")
        IN  /\ Override(self.documentation, "deserializer") = None
            /\ Override(self.documentation, "serializer") = None
            /\ c_deser # None
            /\ self.parent.callback.serializer_class # None
            /\ c_deser # self.parent.callback.serializer_class
            /\ method_get_deserializer_class(self) = c_deser

(* ---------------------------------------------------------------------- *)
(* DocumentationGenerator.generate(apis)                                   *)
(* ---------------------------------------------------------------------- *)
\* the docstrings of the documented view, parsed by the parser the project
\* configures (DEFAULT_DOCUMENTATION_PARSER_CLASSES names the rst-like one)
QueryDocstring ==
    <<":", "q", "u", "e", "r", "y", ":", "\n", " ", " ", "n", ":", " ", "t">>
PostDocstring ==
    <<":", "p", "o", "s", "t", ":", "\n", " ", " ", "w">>

\* an APIView at /a/{pk} whose get docstring lists a query parameter and
\* whose post docstring lists a post parameter
DocumentedApi ==
    ApiAt(<<"/", "a", "/", "{", "p", "k", "}">>,
          [APIViewHandler(EmptyDoc, rst_parse(StrDoc(PostDocstring)).rtn,
                          Some(SerializerClass(1)), <<"GET", "POST", "OPTIONS">>)
              EXCEPT !.attrs.get = rst_parse(StrDoc(QueryDocstring)).rtn],
          None)

\* a view set at /b/{pk} whose serializer declares no field of its own
DetailApi ==
    ApiAt(<<"/", "b", "/", "{", "p", "k", "}">>,
          ViewSetHandler(EmptyDoc, EmptyDoc, Some(SerializerClass(3))),
          Some(<<<<"get", "retrieve">>, <<"put", "update">>, <<"delete", "destroy">>>>))

\* the handlers of the project: a view that allows OPTIONS only, a view
\* whose post docstring names a deserializer, a routed view set, a view
\* set whose route matcher carries no action map, a view with documented
\* parameters and a detail view set
DocApis ==
    {Api(APIViewHandler(EmptyDoc, EmptyDoc, None, <<"OPTIONS">>), None),
     Api(APIViewHandler(EmptyDoc, ParsedDoc(None, Some(NameBs)),
                        Some(SerializerClass(1)), <<"GET", "POST", "OPTIONS">>), None),
     Api(ViewSetHandler(EmptyDoc, EmptyDoc, Some(SerializerClass(2))),
         Some(<<<<"get", "list">>, <<"post", "create">>>>)),
     Api(ViewSetHandler(EmptyDoc, EmptyDoc, Some(SerializerClass(1))), None),
     DocumentedApi,
     DetailApi}

\* the serializers of the project embed class 3, if any
DocEdgeSets == SUBSET {<<1, 3>>, <<2, 3>>, <<3, 3>>}

\* re.findall('/{([^}]*)}', path)
RECURSIVE url_params(_)
url_params(path) ==
    LET open == FindSub(path, <<"/", "{">>, 0)
        close == FindSub(path, <<"}">>, open + 2)
    IN  IF open = -1 \/ close = -1 THEN << >>
        ELSE <<SubSeq(path, open + 3, close)>> \o url_params(StrSuffix(path, close + 1))

\* DocumentationGenerator._generate_method_url_parameters
generate_method_url_parameters(introspector) ==
    LET names == url_params(introspector.parent.path)
    IN  [i \in DOMAIN names |->
            [paramType |-> "path", name |-> names[i], type |-> "string",
             required |-> TRUE]]

\* the query list of a parsed docstring, [] without one
query_list(documentation) ==
    IF DocHas(documentation, "query") THEN documentation["query"][1] ELSE << >>

\* DocumentationGenerator._generate_method_query_parameters
generate_method_query_parameters(introspector) ==
    query_list(introspector.documentation)
        \o query_list(introspector.parent.documentation)

\* serializer.__name__
class_name(serializer) == TypeNames[serializer.cls]

\* DocumentationGenerator._generate_method_form_parameters
generate_method_form_parameters(introspector) ==
    LET serializer == method_get_deserializer_class(introspector)
    IN  IF serializer = None THEN << >>
        ELSE LET fields == SelectSeq(get_fields(serializer[1]),
                                     LAMBDA field : field.read_only # Some(TRUE))
             IN  [i \in DOMAIN fields |->
                     DictSet(DictSet(generate_field(
                                         fields[i],
                                         [serializers |-> EmptyDict, models |-> EmptyDict],
                                         FALSE).prop,
                                     "paramType", "form"),
                             "name", fields[i].name)]

\* DocumentationGenerator._generate_method_body_parameters
generate_method_body_parameters(introspector) ==
    LET serializer == method_get_deserializer_class(introspector)
    IN  IF serializer = None THEN << >>
        ELSE <<[name |-> class_name(serializer[1]),
                dataType |-> class_name(serializer[1]), paramType |-> "body"]>>

\* DocumentationGenerator._generate_method_parameters
generate_method_parameters(introspector) ==
    LET params == generate_method_url_parameters(introspector)
                      \o generate_method_query_parameters(introspector)
        form_params == generate_method_form_parameters(introspector)
    IN  IF get_http_method(introspector) \in {"GET", "DELETE"} THEN params
        ELSE params \o form_params
                 \o (IF form_params = << >>
                     THEN generate_method_body_parameters(introspector) ELSE << >>)

\* lines 88-100: the operation's httpMethod, responseClass and parameters
generate_method_operation(introspector) ==
    LET serializer == method_get_serializer_class(introspector)
    IN  [httpMethod |-> get_http_method(introspector),
         responseClass |-> IF serializer = None THEN None
                           ELSE Some(get_identifier(serializer[1])),
         parameters |-> generate_method_parameters(introspector)]

skipped_never(method_introspector) == FALSE

\* lines 51-53: the loop skips the OPTIONS method
skipped(method_introspector) ==
    get_http_method(method_introspector) = "OPTIONS"

register_if_present_never(mg, class) == mg

\* `if x is not None: models.register(x)`
register_if_present(mg, class) ==
    IF class = None THEN mg ELSE register(mg, class[1])

\* lines 50-65: the loop body for one yielded method
retrieve_method_info(operations, mg, method_introspector) ==
    IF skipped(method_introspector) THEN [operations |-> operations, mg |-> mg]
    ELSE [operations |-> Append(operations,
                                generate_method_operation(method_introspector)),
          mg |-> register_if_present(
                     register_if_present(
                         mg, method_get_serializer_class(method_introspector)),
                     method_get_deserializer_class(method_introspector))]

InitDocs ==
    /\ edges \in DocEdgeSets
    /\ serializers = EmptyDict
    /\ models = EmptyDict
    /\ pc = "idle"
    /\ returned = None
    /\ registered = {}
    /\ reRegistered = FALSE
    /\ expandCount = EmptyDict
    /\ iterations = 0
    /\ ifs = IfsIdle
    /\ intro = IntroIdle
    /\ \E n \in 0..MaxApis : \E apis \in [1..n -> DocApis] :
          dg = [DgIdle EXCEPT !.pc = "loop", !.apis = apis, !.idx = 1]
    /\ prs = ParserIdle
    /\ rc = RcIdle
    /\ gens = GensIdle

\* _retrieve_api_info up to its loop: the introspector of the next endpoint,
\* an empty operations list and a new ModelGenerator
DocsResolve ==
    /\ dg.pc = "loop"
    /\ dg.idx <= Len(dg.apis)
    /\ \E v \in {BaseViewIntrospector(dg.apis[dg.idx].callback, dg.apis[dg.idx].path,
                                      dg.apis[dg.idx].pattern)} :
          IF v.raised # None
          THEN /\ dg' = [dg EXCEPT !.pc = "raised", !.raised = v.raised]
               /\ UNCHANGED <<intro, serializers, models>>
          ELSE /\ dg' = [dg EXCEPT !.pc = "iterate", !.operations = << >>]
               /\ intro' = [IntroIdle EXCEPT !.pc = "constructed",
                                             !.api = dg.apis[dg.idx],
                                             !.view = Some(v.self)]
               /\ serializers' = EmptyDict
               /\ models' = EmptyDict
    /\ UNCHANGED <<edges, pc, returned, registered, reRegistered, expandCount,
                   iterations, ifs, prs, rc, gens>>

\* the for statement asks the introspector for its methods
DocsIter ==
    /\ dg.pc = "iterate"
    /\ intro.pc = "constructed"
    /\ \E m \in {iter_methods(intro.view[1])} :
          IF m.raised # None
          THEN /\ dg' = [dg EXCEPT !.pc = "raised", !.raised = m.raised]
               /\ intro' = [intro EXCEPT !.pc = "raised", !.raised = m.raised]
          ELSE /\ intro' = [intro EXCEPT !.pc = "iter", !.remaining = m.methods]
               /\ UNCHANGED dg
    /\ UNCHANGED <<mgVars, ifs, prs, rc, gens>>

\* one round of the loop over the method introspectors
DocsMethod ==
    /\ dg.pc = "iterate"
    /\ intro.pc = "iter"
    /\ intro.remaining # << >>
    /\ \E i \in DOMAIN intro.remaining :
          /\ intro.api.callback.kind = "ViewSet" \/ i = 1
          /\ \E mi \in {yield_method(intro.view[1], intro.remaining[i])} :
                IF mi.raised # None
                THEN /\ dg' = [dg EXCEPT !.pc = "raised", !.raised = mi.raised]
                     /\ intro' = [intro EXCEPT !.pc = "raised", !.raised = mi.raised]
                     /\ UNCHANGED <<serializers, models>>
                ELSE \E r \in {retrieve_method_info(
                                   dg.operations,
                                   [serializers |-> serializers, models |-> models],
                                   mi.self)} :
                        /\ intro' = [intro EXCEPT
                                        !.remaining = RemoveAt(@, i),
                                        !.yielded = Append(@, mi.self),
                                        !.keys = Append(@, intro.remaining[i][1])]
                        /\ dg' = [dg EXCEPT !.operations = r.operations]
                        /\ serializers' = r.mg.serializers
                        /\ models' = r.mg.models
    /\ UNCHANGED <<edges, pc, returned, registered, reRegistered, expandCount,
                   iterations, ifs, prs, rc, gens>>

\* the loop is over: `models.generate()` is called
DocsModels ==
    /\ dg.pc = "iterate"
    /\ intro.pc = "iter"
    /\ intro.remaining = << >>
    /\ intro' = [intro EXCEPT !.pc = "done"]
    /\ dg' = [dg EXCEPT !.pc = "models"]
    /\ pc' = "generate"
    /\ returned' = None
    /\ iterations' = 0
    /\ UNCHANGED <<edges, serializers, models, registered, reRegistered, expandCount,
                   ifs, prs, rc, gens>>

\* generate lines 27-35: the endpoint's entry is appended and its models
\* are merged into models_docs
DocsCollect ==
    /\ dg.pc = "models"
    /\ pc = "idle"
    /\ returned # None
    /\ dg' = [dg EXCEPT
                 !.pc = "loop",
                 !.idx = @ + 1,
                 !.apis_docs = Append(@, [path |-> dg.apis[dg.idx].path,
                                          operations |-> dg.operations]),
                 !.models_docs = IF Cardinality(DOMAIN returned[1]) > 0
                                 THEN DictMerge(@, returned[1]) ELSE @,
                 !.yieldedLog = Append(@, [i \in DOMAIN intro.yielded |->
                                              get_http_method(intro.yielded[i])]),
                 !.modelsLog = Append(@, returned[1])]
    /\ returned' = None
    /\ UNCHANGED <<edges, serializers, models, pc, registered, reRegistered,
                   expandCount, iterations, ifs, intro, prs, rc, gens>>

\* generate lines 36-39
DocsReturn ==
    /\ dg.pc = "loop"
    /\ dg.idx > Len(dg.apis)
    /\ dg' = [dg EXCEPT !.pc = "done",
                        !.result = Some([apis |-> dg.apis_docs,
                                         models |-> dg.models_docs])]
    /\ UNCHANGED <<mgVars, ifs, intro, prs, rc, gens>>

NextDocs ==
    \/ DocsResolve \/ DocsIter \/ DocsMethod \/ DocsModels
    \/ GenerateIter \/ GenerateReturn
    \/ DocsCollect \/ DocsReturn

SpecDocs == InitDocs /\ [][NextDocs]_vars

\* the httpMethod of each operation, in order
HttpMethods(operations) == [i \in DOMAIN operations |-> operations[i].httpMethod]

NotOptions(http_method) == http_method # "OPTIONS"

\* C5: during one generate(apis) call one schema registry owns the schema
\* map, so a serializer class referenced by several endpoints, or nested in
\* several of their serializers, is expanded exactly once in that call.
C5_ExpandedOncePerCall ==
    \A id \in DOMAIN expandCount : expandCount[id] = 1

\* C6: every endpoint's operations list has one operation per yielded
\* method other than OPTIONS, in the order yielded, and none whose
\* httpMethod is OPTIONS; an endpoint that yields no other method has an
\* empty operations list and an empty models map.
C6_OperationsPerMethod ==
    /\ dg.pc \in {"iterate", "models"} /\ intro.pc \in {"iter", "done"} =>
          HttpMethods(dg.operations) =
              SelectSeq([i \in DOMAIN intro.yielded |->
                            get_http_method(intro.yielded[i])], NotOptions)
    /\ Len(dg.yieldedLog) = Len(dg.apis_docs)
    /\ \A k \in DOMAIN dg.apis_docs :
          /\ HttpMethods(dg.apis_docs[k].operations)
                 = SelectSeq(dg.yieldedLog[k], NotOptions)
          /\ SelectSeq(dg.yieldedLog[k], NotOptions) = << >> =>
                /\ dg.apis_docs[k].operations = << >>
                /\ dg.modelsLog[k] = EmptyDict
    /\ dg.result # None =>
          /\ dg.result[1].apis = dg.apis_docs
          /\ (\A k \in DOMAIN dg.apis_docs : dg.apis_docs[k].operations = << >>)
                => dg.result[1].models = EmptyDict

\* generate has returned for a view that allows OPTIONS only followed by a
\* view set: no operation for the first, GET and POST in the order yielded
\* for the second
C6_Witness ==
    /\ dg.result # None
    /\ Len(dg.result[1].apis) = 2
    /\ dg.yieldedLog[1] = <<"OPTIONS">>
    /\ dg.result[1].apis[1].operations = << >>
    /\ dg.yieldedLog[2] = <<"POST", "GET">>
    /\ HttpMethods(dg.result[1].apis[2].operations) = <<"POST", "GET">>

\* a view-set endpoint whose route matcher carries no action map
LacksActionMap(api) ==
    api.callback.kind = "ViewSet" /\ api.pattern.actions = None

\* C11: when a view-set endpoint's route matcher lacks the action map, the
\* RuntimeError of _resolve_methods leaves generate: generate returns no
\* document, partial or complete, wherever the endpoint is in the list.
C11_MissingActionMapRaises ==
    /\ (\E k \in DOMAIN dg.apis : LacksActionMap(dg.apis[k])) => dg.result = None
    /\ dg.raised # None =>
          /\ dg.pc = "raised"
          /\ dg.result = None
          /\ dg.raised = Some("RuntimeError")
          /\ LacksActionMap(dg.apis[dg.idx])
    /\ (dg.pc = "iterate" /\ intro.pc = "iter") => ~LacksActionMap(dg.apis[dg.idx])

\* generate has raised at its second endpoint, after collecting the first
C11_Witness ==
    /\ dg.pc = "raised"
    /\ dg.raised = Some("RuntimeError")
    /\ dg.idx = 2
    /\ Len(dg.apis_docs) = 1
    /\ dg.result = None


(* ---------------------------------------------------------------------- *)
(* One parse(doc) call of a docstring parser                               *)
(* ---------------------------------------------------------------------- *)
MaxLines == 3
MaxIndent == 2

Pad(n) == [i \in 1..n |-> " "]

\* the sequences of 1..n lines drawn from a set of lines, joined by "\n"
TextsOf(lineSet, n) ==
    UNION {{StrJoin(ls, "\n") : ls \in [1..k -> lineSet]} : k \in 1..n}

\* docstring lines for the simple parser: prose, blank, parameter lines with
\* one and two separators, and a line with a bare "--"
SimpleLines ==
    {<<"a", ".", "b">>,
     << >>,
     <<" ", "c", " ", "-", "-", " ", "d">>,
     <<"e", "-", "-", "f">>,
     <<"g", " ", "-", "-", " ", "h", " ", "-", "-", " ", "i">>,
     <<" ", " ", "j">>}

\* prose lines at every indentation, a line with a ':' inside, and blank
\* lines
ProseLines ==
    {Pad(n) \o <<"a", ".", "b">> : n \in 0..MaxIndent}
        \cup {<<"c", ":", "d">>, << >>}

\* what precedes the body of a list section
SectionHeads ==
    {<<":", "q", "u", "e", "r", "y", ":">>,
     <<":", "P", "o", "s", "t", ":">>,
     <<":", "x", ":", "\n", ":", "q", "u", "e", "r", "y", ":">>}

\* the lines of a list section: items at two levels, description and option
\* lines below them, a blank line, and a line at the marker's level
SectionLines ==
    {Pad(2) \o <<"w", ":", " ", "t">>,
     Pad(1) \o <<"m">>,
     Pad(4) \o <<"d">>,
     Pad(4) \o <<":", "r", "e", "q", "u", "i", "r", "e", "d", ":">>,
     Pad(4) \o <<":", "e", "n", "u", "m", ":", " ", "a", ",", " ", "b">>,
     Pad(4) \o <<":", "m", "i", "n", "i", "m", "u", "m", ":", " ", "7">>,
     << >>,
     <<"z">>}

SectionTexts ==
    {h \o <<"\n">> \o b : h \in SectionHeads, b \in TextsOf(SectionLines, MaxLines)}

\* the lines of a `:response:` section: a status code with its message
\* below it, and a status code with its message on the same line
ResponseLines ==
    {Pad(2) \o <<"2", "0", "0">>,
     Pad(4) \o <<"O", "k">>,
     Pad(2) \o <<"4", "0", "4", ":", " ", "N", "o">>}

ResponseTexts ==
    {<<":", "r", "e", "s", "p", "o", "n", "s", "e", ":", "\n">> \o b :
        b \in TextsOf(ResponseLines, MaxLines)}

\* the arguments parse is called with
Unparseables == {NoDoc, StrDoc(<< >>), NonTextDoc}
SimpleInputs == Unparseables \cup {StrDoc(t) : t \in TextsOf(SimpleLines, MaxLines)}
RstInputs ==
    Unparseables
        \cup {StrDoc(t) : t \in TextsOf(ProseLines, MaxLines) \cup SectionTexts
                                  \cup ResponseTexts}

InitParse ==
    /\ MgIdle
    /\ ifs = IfsIdle
    /\ intro = IntroIdle
    /\ dg = DgIdle
    /\ rc = RcIdle
    /\ gens = GensIdle
    /\ \/ \E doc \in SimpleInputs :
             prs = [ParserIdle EXCEPT !.pc = "call", !.strategy = "simple", !.doc = doc]
       \/ \E doc \in RstInputs :
             prs = [ParserIdle EXCEPT !.pc = "call", !.strategy = "rst", !.doc = doc]

\* SimpleDocumentationParser.parse(doc)
SimpleParse ==
    /\ prs.pc = "call" /\ prs.strategy = "simple"
    /\ prs' = [prs EXCEPT !.pc = "done", !.result = Some(simple_parse(prs.doc))]
    /\ UNCHANGED <<mgVars, ifs, intro, dg, rc, gens>>

\* RstLikeDocumentationParser.parse(doc) up to its loop (lines 56-75)
RstBegin ==
    /\ prs.pc = "call" /\ prs.strategy = "rst"
    /\ prs' = IF unparseable(prs.doc)
              THEN [prs EXCEPT !.pc = "done", !.result = Some(BaseRtn)]
              ELSE [prs EXCEPT !.pc = "lines", !.st = RstStart,
                               !.lines = StrSplit(prs.doc.text, "\n")]
    /\ UNCHANGED <<mgVars, ifs, intro, dg, rc, gens>>

\* one round of the loop over the lines
RstLine ==
    /\ prs.pc = "lines" /\ prs.lines # << >>
    /\ \E st \in {rst_line(prs.st, Head(prs.lines))} :
          prs' = [prs EXCEPT !.st = st, !.lines = Tail(@),
                             !.raised = st.raised,
                             !.pc = IF st.raised # None THEN "raised" ELSE @]
    /\ UNCHANGED <<mgVars, ifs, intro, dg, rc, gens>>

\* `return self._normalize(rtn)` (line 155)
RstNormalize ==
    /\ prs.pc = "lines" /\ prs.lines = << >>
    /\ prs' = [prs EXCEPT !.pc = "done", !.result = Some(normalize(prs.st.rtn))]
    /\ UNCHANGED <<mgVars, ifs, intro, dg, rc, gens>>

NextParse == SimpleParse \/ RstBegin \/ RstLine \/ RstNormalize

SpecParse == InitParse /\ [][NextParse]_vars

(* ---------------------------------------------------------------------- *)
(* Claims about the docstring parsers                                      *)
(* ---------------------------------------------------------------------- *)
\* C14: RstLikeDocumentationParser.parse never raises on a text input,
\* whatever the indentation of its lines: the stack of previous indent
\* levels is never popped while empty, and the call ends with a result.
C14_RstNeverRaises ==
    prs.strategy = "rst" =>
        /\ prs.pc # "raised"
        /\ prs.raised = None
        /\ prs.st.raised = None

\* C15: for both parsers, parse of None, of the empty string or of a value
\* that is not text returns, without raising, a dict whose description,
\* summary and query are None and that has no other key.
C15_NullInput ==
    (prs.pc # "idle" /\ (prs.doc.type # "str" \/ Len(prs.doc.text) = 0)) =>
        /\ prs.pc \in {"call", "done"}
        /\ prs.raised = None
        /\ prs.pc = "done" =>
              /\ prs.result # None
              /\ DOMAIN prs.result[1] = {"description", "summary", "query"}
              /\ \A k \in DOMAIN prs.result[1] : prs.result[1][k] = None

C15_Witness ==
    /\ prs.pc = "done" /\ prs.strategy = "simple"
    /\ prs.doc = StrDoc(<< >>)
    /\ prs.result = Some(BaseRtn)

\* the text has the substring
Contains(s, sub) ==
    \E i \in 1..(Len(s) - Len(sub) + 1) : SubSeq(s, i, i + Len(sub) - 1) = sub

\* the places where a line reads `name -- description`, with a name and a
\* description that hold no separator themselves
PatternAt(line) ==
    {i \in 1..(Len(line) - 3) :
        /\ SubSeq(line, i, i + 3) = <<" ", "-", "-", " ">>
        /\ ~Contains(SubSeq(line, 1, i - 1), <<" ", "-", "-", " ">>)
        /\ ~Contains(SubSeq(line, i + 4, Len(line)), <<" ", "-", "-", " ">>)}

MatchesPattern(line) == PatternAt(line) # {}

\* the text up to the first occurrence of a character, all of it if none
UpTo(s, c) ==
    IF \E i \in DOMAIN s : s[i] = c
    THEN SubSeq(s, 1, (CHOOSE i \in DOMAIN s : s[i] = c /\ \A j \in 1..(i - 1) : s[j] # c) - 1)
    ELSE s

\* the document's lines, in order
DocLines(text) == StrSplit(text, "\n")

\* C16: SimpleDocumentationParser.parse of a text collects as query
\* parameters exactly the lines that read `name -- description` (one
\* separator ' -- ' between a name and a description), one parameter per
\* line in document order, with the trimmed name, the trimmed description
\* and paramType 'query'; the summary is the first line of the description
\* up to its first '.'.
C16_SimpleQueryParams ==
    (prs.pc = "done" /\ prs.strategy = "simple" /\ prs.doc.type = "str"
        /\ prs.doc.text # << >>) =>
        LET matching == SelectSeq(DocLines(prs.doc.text), MatchesPattern)
            rtn == prs.result[1]
            at(line) == CHOOSE i \in PatternAt(line) : \A j \in PatternAt(line) : i <= j
        IN  /\ prs.raised = None
            /\ rtn.query # None
            /\ Len(rtn.query[1]) = Len(matching)
            /\ \A k \in DOMAIN matching :
                  /\ rtn.query[1][k].paramType = "query"
                  /\ rtn.query[1][k].name =
                        Strip(SubSeq(matching[k], 1, at(matching[k]) - 1))
                  /\ rtn.query[1][k].description =
                        Strip(SubSeq(matching[k], at(matching[k]) + 4, Len(matching[k])))
            /\ rtn.description # None
            /\ rtn.summary = Some(UpTo(UpTo(rtn.description[1], "\n"), "."))

\* two matching lines around a line with two separators and a line with a
\* bare "--"
C16_Witness ==
    /\ prs.pc = "done" /\ prs.strategy = "simple"
    /\ prs.doc.type = "str"
    /\ Len(SelectSeq(DocLines(prs.doc.text), MatchesPattern)) = 2
    /\ Len(DocLines(prs.doc.text)) = 3
    /\ Contains(DocLines(prs.doc.text)[2], <<"h", " ", "-", "-", " ", "i">>)
    /\ Len(prs.result[1].query[1]) = 2

\* the trimmed text that precedes the first line that reads
\* `name -- description`, all of the trimmed text if there is none
BeforeFirstParameterLine(text) ==
    LET lines == StrSplit(trim_docstring(text), "\n")
        params == {i \in DOMAIN lines : MatchesPattern(lines[i])}
        first == IF params = {} THEN Len(lines) + 1
                 ELSE CHOOSE i \in params : \A j \in params : i <= j
    IN  Strip(StrJoin(SubSeq(lines, 1, first - 1), "\n"))

\* C17: SimpleDocumentationParser.parse returns as description the trimmed
\* text that precedes the first parameter line, a parameter line being one
\* that is collected as a query parameter; the description is cut at no
\* earlier line and is the whole trimmed text without a parameter line.
C17_DescriptionCutAtFirstParam ==
    (prs.pc = "done" /\ prs.strategy = "simple" /\ prs.doc.type = "str"
        /\ prs.doc.text # << >>) =>
        prs.result[1].description = Some(BeforeFirstParameterLine(prs.doc.text))

\* a stripped line of the form `:name:` or `:name: value`
IsMarker(line) ==
    /\ Len(line) > 2
    /\ line[1] = ":"
    /\ \E i \in 3..Len(line) :
          /\ line[i] = ":"
          /\ \A j \in 3..(i - 1) : line[j] # ":"
          /\ Strip(SubSeq(line, 2, i - 1)) # << >>

HasMarker(text) == \E i \in DOMAIN DocLines(text) : IsMarker(Strip(DocLines(text)[i]))

\* C18: when RstLikeDocumentationParser.parse returns for a text without any
\* `:name:` marker, the description is the lines of the text each stripped,
\* joined by newlines and trimmed, the summary is the first description line
\* up to its first '.', query is None and there is no post, serializer or
\* deserializer key.
C18_PlainText ==
    (prs.pc = "done" /\ prs.strategy = "rst" /\ prs.doc.type = "str"
        /\ prs.doc.text # << >> /\ ~HasMarker(prs.doc.text)) =>
        LET lines == DocLines(prs.doc.text)
            description == Strip(StrJoin([i \in DOMAIN lines |-> Strip(lines[i])], "\n"))
            rtn == prs.result[1]
        IN  /\ rtn.description = Some(description)
            /\ rtn.summary = Some(UpTo(UpTo(description, "\n"), "."))
            /\ rtn.query = None
            /\ DOMAIN rtn = {"description", "summary", "query"}

\* an indented text of three lines, one of them with a ':' inside
C18_Witness ==
    /\ prs.pc = "done" /\ prs.strategy = "rst"
    /\ prs.doc.type = "str" /\ ~HasMarker(prs.doc.text)
    /\ Len(DocLines(prs.doc.text)) = 3
    /\ IndentOf(DocLines(prs.doc.text)[1]) = 1
    /\ IndentOf(DocLines(prs.doc.text)[2]) = 2
    /\ Contains(DocLines(prs.doc.text)[3], <<"c", ":", "d">>)
    /\ prs.result[1].summary = Some(<<"a">>)

\* the item an item line stands for: the line split at its first ':' (looked
\* for after the line's first character) into name and optional type
ItemOf(line) ==
    LET colons == {i \in 2..Len(line) : line[i] = ":"}
        first == CHOOSE i \in colons : \A j \in colons : i <= j
    IN  IF colons = {} THEN [name |-> line, type |-> None]
        ELSE [name |-> Strip(SubSeq(line, 1, first - 1)),
              type |-> Some(Strip(SubSeq(line, first + 1, Len(line))))]

\* one round of the loop inside a `:query:` or `:post:` section that no
\* unknown marker precedes, the round not raising
InSectionRound ==
    /\ prs.pc = "lines" /\ prs.lines # << >>
    /\ prs'.pc = "lines"
    /\ prs.st.item_list_indent # None
    /\ prs.st.ignore_indent = maxint

C19_Round ==
    InSectionRound =>
        LET line == Head(prs.lines)
            current_indent == IndentOf(line)
            key == prs.st.item_list[1]
            old == prs.st.rtn[key][1]
            marker_indent == prs.st.item_list_indent[1]
            item_indent == prs.st.item_list_item_indent
        IN  IF Strip(line) = << >>
            THEN \* a blank line closes nothing and starts nothing
                 /\ prs'.st.item_list_indent = prs.st.item_list_indent
                 /\ prs'.st.item_list_item_indent = item_indent
                 /\ Len(prs'.st.rtn[key][1]) = Len(old)
            ELSE IF current_indent <= marker_indent
            THEN \* the list is closed
                 /\ prs'.st.item_list_item_indent = None
                 /\ \/ prs'.st.item_list_indent = None
                    \/ IsMarker(Strip(line)) /\ prs'.st.item_list_indent = Some(current_indent)
                 /\ ~IsMarker(Strip(line)) => prs'.st.rtn[key] = prs.st.rtn[key]
            ELSE IF item_indent = None \/ current_indent <= item_indent[1]
            THEN \* a new item, after the items collected so far
                 /\ prs'.st.item_list = prs.st.item_list
                 /\ prs'.st.item_list_indent = prs.st.item_list_indent
                 /\ prs'.st.item_list_item_indent = Some(current_indent)
                 /\ Len(prs'.st.rtn[key][1]) = Len(old) + 1
                 /\ SubSeq(prs'.st.rtn[key][1], 1, Len(old)) = old
                 /\ LET item == prs'.st.rtn[key][1][Len(old) + 1]
                    IN  /\ item.name = ItemOf(Strip(line)).name
                        /\ item.type = ItemOf(Strip(line)).type
                        /\ item.description = << >>
            ELSE \* the line belongs to the last item
                 /\ prs'.st.item_list = prs.st.item_list
                 /\ prs'.st.item_list_indent = prs.st.item_list_indent
                 /\ prs'.st.item_list_item_indent = item_indent
                 /\ Len(prs'.st.rtn[key][1]) = Len(old)
                 /\ SubSeq(prs'.st.rtn[key][1], 1, Len(old) - 1) = SubSeq(old, 1, Len(old) - 1)
                 /\ LET before == old[Len(old)]
                        after == prs'.st.rtn[key][1][Len(old)]
                    IN  /\ after.name = before.name
                        /\ after.type = before.type
                        /\ \/ after.description = Append(before.description, Strip(line))
                           \/ /\ after.description = before.description
                              /\ IsMarker(Strip(line))

\* C19: inside a `:query:` or `:post:` section (marker name matched without
\* regard to case) that no unknown marker precedes, in every round of the
\* loop that does not raise: a non-blank line at or below the marker's
\* indentation closes the list; any other non-blank line at or below the
\* item indentation (or the first line of the section) starts a new item
\* appended after the items collected so far, the line being split at its
\* first ':' into name and optional type; a line indented further than the
\* item belongs to that item, as description or as attribute.
C19_SectionItems == [][C19_Round]_vars

\* a `:Post:` section of two items, the first with a type and a description
C19_Witness ==
    /\ prs.pc = "done" /\ prs.strategy = "rst"
    /\ "post" \in DOMAIN prs.result[1]
    /\ Len(prs.result[1].post[1]) = 2
    /\ prs.result[1].post[1][1].name = <<"w">>
    /\ prs.result[1].post[1][1].type = Some(<<"t">>)
    /\ prs.result[1].post[1][1].description = <<"d">>
    /\ prs.result[1].post[1][2].name = <<"m">>

\* a stripped line `:required:`, `:enum: values`, `:minimum: N` or
\* `:maximum: N` with N an integer
IsOptionLine(line) ==
    LET v == parse_variable(line)
    IN  \/ v.name = NameRequired
        \/ v.name = NameEnum /\ v.val # None
        \/ v.name \in {NameMinimum, NameMaximum} /\ v.val # None /\ IsDigit(v.val[1])

\* the attribute an option line stands for
OptionOf(line) ==
    LET v == parse_variable(line)
    IN  IF v.name = NameRequired THEN [key |-> "required", value |-> TRUE]
        ELSE IF v.name = NameEnum
        THEN [key |-> "enum",
              value |-> LET xs == StrSplit(v.val[1], ",")
                        IN  [k \in DOMAIN xs |-> Strip(xs[k])]]
        ELSE [key |-> KeyOf(v.name), value |-> ToInt(v.val[1])]

C20_Round ==
    (/\ InSectionRound
     /\ prs.st.item_list_item_indent # None
     /\ IndentOf(Head(prs.lines)) > prs.st.item_list_item_indent[1]
     /\ IsOptionLine(Strip(Head(prs.lines)))) =>
        LET line == Strip(Head(prs.lines))
            key == prs.st.item_list[1]
            old == prs.st.rtn[key][1]
            before == old[Len(old)]
            after == prs'.st.rtn[key][1][Len(old)]
        IN  /\ Len(prs'.st.rtn[key][1]) = Len(old)
            /\ IF before.description = << >>
               THEN after = DictSet(before, OptionOf(line).key, OptionOf(line).value)
               ELSE after = [before EXCEPT !.description = Append(@, line)]

\* C20: within a list item, a line `:required:`, `:enum: a,b,c`,
\* `:minimum: N` or `:maximum: N` sets the item's attribute (required = true,
\* enum = the comma-separated values trimmed, minimum/maximum = the integer
\* N) and leaves the description alone when nothing has been collected into
\* the item's description yet; once a line has been collected, the option
\* line is appended to the description and the item is otherwise unchanged.
C20_OptionsBeforeDescription == [][C20_Round]_vars

\* an item whose `:required:` line came after a description line
C20_Witness ==
    /\ prs.pc = "done" /\ prs.strategy = "rst"
    /\ prs.result[1].query # None
    /\ Len(prs.result[1].query[1]) = 1
    /\ "required" \notin DOMAIN prs.result[1].query[1][1]
    /\ prs.result[1].query[1][1].description =
          <<"d", "\n", ":", "r", "e", "q", "u", "i", "r", "e", "d", ":">>

(* ---------------------------------------------------------------------- *)
(* Claims about the parameters of the operations generate produces         *)
(* ---------------------------------------------------------------------- *)
\* the operations generate has produced so far: those of the endpoints
\* collected and those of the endpoint at hand
AllOperations ==
    LET RECURSIVE Flat(_)
        Flat(docs) == IF docs = << >> THEN << >>
                      ELSE Head(docs).operations \o Flat(Tail(docs))
    IN  Flat(dg.apis_docs) \o (IF dg.pc = "iterate" THEN dg.operations ELSE << >>)

\* the parameters of an operation that carry a paramType
OfType(operation, paramType) ==
    SelectSeq(operation.parameters, LAMBDA p : p.paramType = paramType)

\* C12: in every operation produced by generate, a GET or DELETE operation
\* has only path and query parameters; a mutating operation has either form
\* parameters or, when it has none, at most one body parameter, named after
\* a serializer; no operation has both form and body parameters.
C12_ParameterKinds ==
    \A i \in DOMAIN AllOperations :
        LET operation == AllOperations[i]
        IN  /\ operation.httpMethod \in {"GET", "DELETE"} =>
                  \A k \in DOMAIN operation.parameters :
                      operation.parameters[k].paramType \in {"path", "query"}
            /\ Len(OfType(operation, "body")) <= 1
            /\ OfType(operation, "form") = << >> \/ OfType(operation, "body") = << >>
            /\ \A k \in DOMAIN OfType(operation, "body") :
                  \E t \in Types : OfType(operation, "body")[k].name = TypeNames[t]

\* the method introspectors whose operation was produced, in order
Produced == SelectSeq(intro.yielded, LAMBDA mi : get_http_method(mi) # "OPTIONS")

\* C13: a mutating operation whose method-level parsed docstring has a
\* `post` list has exactly that list as its form parameters; the form
\* parameters come from the deserializer's fields only without a `post`
\* list.
C13_PostListOverridesFields ==
    (dg.pc = "iterate" /\ intro.pc \in {"iter", "done"}
        /\ Len(dg.operations) = Len(Produced)) =>
        \A k \in DOMAIN dg.operations :
            (/\ dg.operations[k].httpMethod \notin {"GET", "DELETE"}
             /\ DocHas(Produced[k].documentation, "post")) =>
                OfType(dg.operations[k], "form") = Produced[k].documentation["post"][1]

\* the status codes a `:response:` section lists (the lines at the item
\* level) and the message of each: the text after 'code:' on the line, or
\* the further-indented lines below it
ResponseCodes(lines) ==
    {i \in 2..Len(lines) : IndentOf(lines[i]) = 2 /\ Strip(lines[i]) # << >>}

ResponseCode(lines, i) == Strip(UpTo(Strip(lines[i]), ":"))

ResponseMessage(lines, i) ==
    IF Contains(lines[i], <<":">>)
    THEN Strip(SubSeq(Strip(lines[i]), Len(UpTo(Strip(lines[i]), ":")) + 2,
                      Len(Strip(lines[i]))))
    ELSE LET below == {j \in (i + 1)..Len(lines) :
                          \A k \in (i + 1)..j : IndentOf(lines[k]) > 2}
         IN  Strip(StrJoin([k \in 1..Cardinality(below) |-> Strip(lines[i + k])], "\n"))

\* C21: RstLikeDocumentationParser.parse of a docstring with a `:response:`
\* section returns a 'responses' mapping from each status code listed in
\* the section to its message.
C21_ResponsesParsed ==
    (prs.pc = "done" /\ prs.strategy = "rst" /\ prs.doc.type = "str"
        /\ prs.doc.text # << >>
        /\ Strip(DocLines(prs.doc.text)[1])
              = <<":", "r", "e", "s", "p", "o", "n", "s", "e", ":">>) =>
        LET lines == DocLines(prs.doc.text)
            rtn == prs.result[1]
        IN  /\ "responses" \in DOMAIN rtn
            /\ DOMAIN rtn["responses"] = {ResponseCode(lines, i) : i \in ResponseCodes(lines)}
            /\ \A i \in ResponseCodes(lines) :
                  (\A j \in ResponseCodes(lines) :
                      j > i => ResponseCode(lines, j) # ResponseCode(lines, i))
                  => rtn["responses"][ResponseCode(lines, i)] = ResponseMessage(lines, i)

\* the text is an unknown `:x:` section with nothing in it followed by
\* other lines
AfterUnknownMarker(text) ==
    Len(text) > 4 /\ SubSeq(text, 1, 4) = <<":", "x", ":", "\n">>

\* C25: an unknown `:name:` marker puts the parser in ignore mode for that
\* section's indentation scope only: the scope ends at the next non-blank
\* line at or below the marker's indentation, so that a `:query:` section
\* that follows at the marker's indentation collects its items as it does
\* without the unknown section before it.
C25_IgnoreScoped ==
    (prs.pc = "done" /\ prs.strategy = "rst" /\ prs.doc.type = "str"
        /\ AfterUnknownMarker(prs.doc.text)) =>
        LET alone == rst_parse(StrDoc(SubSeq(prs.doc.text, 5, Len(prs.doc.text))))
        IN  alone.raised = None => prs.result[1].query = alone.rtn.query

(* ---------------------------------------------------------------------- *)
(* Further claims about the registry, the introspectors and generate       *)
(* ---------------------------------------------------------------------- *)
\* the names of the fields class t declares
FieldNames(t) == {DeclaredFields(t)[i].name : i \in DOMAIN DeclaredFields(t)}

\* C22: after registering a serializer class and calling generate(), the
\* document under the class's id has exactly one property per field the
\* class declares, keyed by the field's name, so that the number of
\* properties is the number of declared fields.
C22_RoundTrip ==
    returned # None =>
        \A t \in registered :
            /\ TypeNames[t] \in DOMAIN returned[1]
            /\ returned[1][TypeNames[t]].id = TypeNames[t]
            /\ DOMAIN returned[1][TypeNames[t]].properties = FieldNames(t)
            /\ Cardinality(DOMAIN returned[1][TypeNames[t]].properties)
                  = Len(DeclaredFields(t))

\* generate() has returned for a registered class with a read-only field
\* and a nested serializer field
C22_Witness ==
    /\ returned # None
    /\ 2 \in registered
    /\ Cardinality(DOMAIN returned[1][TypeNames[2]].properties) = 3
    /\ "active" \in DOMAIN returned[1][TypeNames[2]].properties

\* the parsed docstring of the handler attribute called name, the empty
\* documentation when the handler has no such attribute
AttributeDoc(callback, name) ==
    IF name \in DOMAIN callback.attrs THEN callback.attrs[name] ELSE EmptyDoc

\* the method-level documentation an operation has when its docstring is the
\* one of the handler attribute called name
DocumentationFrom(callback, name) ==
    resolve_documentation_information(callback, AttributeDoc(callback, name)).documentation

\* the action the key of a view set's action map is bound to
ActionOf(actions, key) ==
    LET j == CHOOSE k \in DOMAIN actions : actions[k][1] = key
    IN  actions[j][2]

\* C26: for both endpoint kinds the method-level documentation of every
\* yielded operation is the one of the handler attribute named after the
\* operation's lowercased HTTP verb (for GET mapped to 'list': from 'get').
C26_VerbAttribute ==
    \A i \in DOMAIN intro.yielded :
        LET self == intro.yielded[i]
        IN  self.documentation =
                DocumentationFrom(self.parent.callback, lower(get_http_method(self)))

\* C26 as amended: an API view's operation reads the attribute named after
\* its lowercased HTTP verb, a view set's operation reads the attribute
\* named after the action its verb is mapped to.
C26_ActionAttribute ==
    \A i \in DOMAIN intro.yielded :
        LET self == intro.yielded[i]
            callback == self.parent.callback
        IN  IF callback.kind = "ViewSet"
            THEN self.documentation =
                    DocumentationFrom(callback,
                        ActionOf(intro.api.pattern.actions[1], intro.keys[i]))
            ELSE self.documentation =
                    DocumentationFrom(callback, lower(get_http_method(self)))

\* a view set's POST operation, mapped to 'create', carries the serializer
\* override written in the docstring of `create`; the handler has no `post`
C26_Witness ==
    \E i \in DOMAIN intro.yielded :
        /\ intro.api.callback.kind = "ViewSet"
        /\ get_http_method(intro.yielded[i]) = "POST"
        /\ intro.yielded[i].method = "create"
        /\ "post" \notin DOMAIN intro.api.callback.attrs
        /\ DocHas(intro.api.callback.attrs["create"], "serializer")
        /\ DocHas(intro.yielded[i].documentation, "serializer")

\* the number of dots name starts with
RECURSIVE LeadingDots(_)
LeadingDots(name) ==
    IF name # << >> /\ name[1] = "." THEN 1 + LeadingDots(Tail(name)) ELSE 0

\* the attribute called attribute of the module at module_path, None when
\* there is no such module or no such attribute
LookedUp(module_path, attribute) ==
    IF module_path \in Modules /\ attribute \in DOMAIN ModuleAttrs(module_path)
    THEN Some(ModuleAttrs(module_path)[attribute])
    ELSE None

\* what a name of k leading dots stands for in a handler module of n
\* components: None for k > n, otherwise the rest of the name under the
\* first n - k components
RelativeTo(arg, module) ==
    LET k == LeadingDots(arg)
        components == StrSplit(module, ".")
        n == Len(components)
        rest == DropFirst(arg, k)
        prefix == SubSeq(components, 1, n - k)
        parts == prefix \o StrSplit(rest, ".")
    IN  IF k > n THEN None
        ELSE LookedUp(StrJoin(ButLast(parts), "."), parts[Len(parts)])

\* C27: import_from_string with a name of k leading dots and a handler
\* module of n components, when it returns: for k <= n the result is the
\* remaining name looked up under the module path less its last k
\* components, for k > n it is None, and a name without any dot is looked up
\* in the handler's own module; every iteration of the loop takes one dot
\* off the name and one trailing component off the module path.
C27_RelativeLookup ==
    /\ (ifs.pc = "done" /\ ifs.arg # << >> /\ ifs.callback # None) =>
          IF StrFind(ifs.arg, ".") = -1
          THEN ifs.result.value = LookedUp(ifs.callback[1], ifs.arg)
          ELSE ifs.arg[1] = "." =>
                  ifs.result.value = RelativeTo(ifs.arg, ifs.callback[1])
    /\ (ifs.pc = "loop") =>
          LET k == LeadingDots(ifs.arg) - LeadingDots(ifs.name)
              components == StrSplit(ifs.callback[1], ".")
          IN  /\ ifs.name = DropFirst(ifs.arg, k)
              /\ k <= Len(components)
              /\ ifs.module_path =
                    StrJoin(SubSeq(components, 1, Len(components) - k), ".")

\* the schema names serializers can have
SchemaNames == {TypeNames[t] : t \in DOMAIN TypeNames}

\* the schema names the operations of a document refer to: each non-null
\* responseClass and the dataType of each body parameter
OperationReferences(apis) ==
    UNION {UNION {
        (IF apis[i].operations[j].responseClass # None
         THEN {apis[i].operations[j].responseClass[1]} ELSE {})
        \cup
        {apis[i].operations[j].parameters[k].dataType :
            k \in {x \in DOMAIN apis[i].operations[j].parameters :
                      apis[i].operations[j].parameters[x].paramType = "body"}} :
        j \in DOMAIN apis[i].operations} : i \in DOMAIN apis}

\* the schema names a model's properties refer to: a type that is a schema
\* name, and the '$ref' of items
PropertyReferences(model) ==
    UNION {
        (IF model.properties[n].type \in SchemaNames
         THEN {model.properties[n].type} ELSE {})
        \cup
        (IF "items" \in DOMAIN model.properties[n]
                /\ "$ref" \in DOMAIN model.properties[n].items
         THEN {model.properties[n].items["$ref"]} ELSE {}) :
        n \in DOMAIN model.properties}

\* C28: in the document generate returns, every schema name referred to (a
\* non-null responseClass, the dataType of a body parameter, a property
\* type naming a nested serializer, an items '$ref') is a key of models.
C28_ReferentialIntegrity ==
    dg.result # None =>
        LET doc == dg.result[1]
        IN  /\ OperationReferences(doc.apis) \subseteq DOMAIN doc.models
            /\ \A id \in DOMAIN doc.models :
                  PropertyReferences(doc.models[id]) \subseteq DOMAIN doc.models

\* a document with a body parameter of CSerializer, a response class
\* ASerializer, and a model ASerializer whose list of children refers to
\* CSerializer
C28_Witness ==
    /\ dg.result # None
    /\ Len(dg.result[1].apis) = 2
    /\ "ASerializer" \in DOMAIN dg.result[1].models
    /\ "CSerializer" \in OperationReferences(<<dg.result[1].apis[1]>>)
    /\ \E j \in DOMAIN dg.result[1].apis[1].operations :
          \E k \in DOMAIN dg.result[1].apis[1].operations[j].parameters :
              dg.result[1].apis[1].operations[j].parameters[k].paramType = "body"
    /\ "ASerializer" \in OperationReferences(<<dg.result[1].apis[2]>>)
    /\ "CSerializer" \in PropertyReferences(dg.result[1].models["ASerializer"])

(* ---------------------------------------------------------------------- *)
(* The route collector (UrlParser), after the specification's section 4.1  *)
(* and the tests of tests.py; urlparser.py itself is not among the sources *)
(* ---------------------------------------------------------------------- *)
\* the deepest nesting of include nodes in the route trees
MaxDepth == 2

\* the namespace of an include node: none, or a label
NamespaceLabels == {None, Some("x"), Some("y")}

\* what a leaf routes to: an API view, a plain view, or the listing view a
\* router wires at its root
Handlers == {"APIView", "View", "APIRoot"}

\* url(regex, handler.as_view())
Leaf(handler) == [node |-> "leaf", regex |-> <<"/", "v">>, handler |-> handler]

\* url(regex, include(url_patterns, namespace=namespace))
Include(namespace, url_patterns) ==
    [node |-> "include", regex |-> <<"a", "/">>, namespace |-> namespace,
     url_patterns |-> url_patterns]

\* the pattern lists nested at most d deep: a leaf, or an include followed
\* by a leaf
RECURSIVE RouteTrees(_)
RouteTrees(d) ==
    IF d = 0 THEN {<<Leaf(h)>> : h \in Handlers}
    ELSE RouteTrees(d - 1) \cup
         {<<Include(ns, sub), Leaf(h)>> :
             ns \in NamespaceLabels, sub \in RouteTrees(d - 1), h \in Handlers}

\* the concatenated pattern with duplicate slashes collapsed
RECURSIVE collapse_slashes(_)
collapse_slashes(path) ==
    IF Len(path) < 2 THEN path
    ELSE IF path[1] = "/" /\ path[2] = "/" THEN collapse_slashes(Tail(path))
    ELSE <<path[1]>> \o collapse_slashes(Tail(path))

\* __get_pattern_api_callback__: the handler when it is an API handler
get_pattern_api_callback(pattern) ==
    IF pattern.handler = "View" THEN None ELSE Some(pattern.handler)

\* the root listing endpoint of a router is left out
exclude_router_api_root(callback) == callback = "APIRoot"

\* __assemble_endpoint_data__: the entry of a leaf, None when it has none
assemble_endpoint_data(pattern, prefix, filter_path) ==
    LET callback == get_pattern_api_callback(pattern)
        path == collapse_slashes(prefix \o pattern.regex)
    IN  IF callback = None THEN None
        ELSE IF exclude_router_api_root(callback[1]) THEN None
        ELSE IF filter_path # None /\ FindSub(path, filter_path[1], 0) = -1 THEN None
        ELSE Some([path |-> path, callback |-> callback[1], pattern |-> pattern])

excluded_at_top_only(namespace, prefix, exclude_namespaces) ==
    prefix = << >> /\ namespace # None /\ namespace[1] \in exclude_namespaces

\* the include node under prefix is pruned: its namespace is excluded
excluded(namespace, prefix, exclude_namespaces) ==
    namespace # None /\ namespace[1] \in exclude_namespaces

\* __flatten_patterns_tree__: depth first, prefixes concatenated down the
\* tree
RECURSIVE flatten_patterns_tree(_, _, _, _)
flatten_patterns_tree(patterns, prefix, filter_path, exclude_namespaces) ==
    IF patterns = << >> THEN << >>
    ELSE LET pattern == Head(patterns)
             endpoint_data == assemble_endpoint_data(pattern, prefix, filter_path)
             here == IF pattern.node = "leaf"
                     THEN (IF endpoint_data = None THEN << >> ELSE <<endpoint_data[1]>>)
                     ELSE IF excluded(pattern.namespace, prefix, exclude_namespaces)
                     THEN << >>
                     ELSE flatten_patterns_tree(pattern.url_patterns,
                                                prefix \o pattern.regex,
                                                filter_path, exclude_namespaces)
         IN  here \o flatten_patterns_tree(Tail(patterns), prefix, filter_path,
                                           exclude_namespaces)

\* UrlParser.get_apis(patterns, filter_path, exclude_namespaces)
get_apis(patterns, filter_path, exclude_namespaces) ==
    flatten_patterns_tree(patterns, << >>, filter_path, exclude_namespaces)

\* filter_path: none, or the path of what lies two includes deep
FilterPaths == {None, Some(<<"a", "/", "a">>)}

InitRoutes ==
    /\ MgIdle
    /\ ifs = IfsIdle
    /\ intro = IntroIdle
    /\ dg = DgIdle
    /\ prs = ParserIdle
    /\ \E patterns \in RouteTrees(MaxDepth), filter_path \in FilterPaths,
          exclude_namespaces \in SUBSET {"x", "y"} :
          rc = [RcIdle EXCEPT !.pc = "call", !.patterns = patterns,
                              !.filter_path = filter_path,
                              !.exclude_namespaces = exclude_namespaces]
    /\ gens = GensIdle

\* get_apis(patterns, filter_path, exclude_namespaces)
RoutesCollect ==
    /\ rc.pc = "call"
    /\ rc' = [rc EXCEPT !.pc = "collected",
                        !.apis = get_apis(rc.patterns, rc.filter_path,
                                          rc.exclude_namespaces)]
    /\ UNCHANGED <<mgVars, ifs, intro, dg, prs, gens>>

\* get_apis once more on the same tree, with one more namespace excluded
RoutesExclude ==
    /\ rc.pc = "collected"
    /\ \E ns \in {"x", "y"} \ rc.exclude_namespaces :
          rc' = [rc EXCEPT !.pc = "excluded", !.namespace = Some(ns),
                           !.apis_excluding =
                               get_apis(rc.patterns, rc.filter_path,
                                        rc.exclude_namespaces \cup {ns})]
    /\ UNCHANGED <<mgVars, ifs, intro, dg, prs, gens>>

NextRoutes == RoutesCollect \/ RoutesExclude

SpecRoutes == InitRoutes /\ [][NextRoutes]_vars

\* the handlers of the leaves of patterns that are in keep, reachable without
\* crossing an include node whose namespace is in exclude, depth first
RECURSIVE ReachableLeaves(_, _, _)
ReachableLeaves(patterns, exclude, keep) ==
    IF patterns = << >> THEN << >>
    ELSE LET pattern == Head(patterns)
             here == IF pattern.node = "leaf"
                     THEN (IF pattern.handler \in keep THEN <<pattern.handler>> ELSE << >>)
                     ELSE IF pattern.namespace # None /\ pattern.namespace[1] \in exclude
                     THEN << >>
                     ELSE ReachableLeaves(pattern.url_patterns, exclude, keep)
         IN  here \o ReachableLeaves(Tail(patterns), exclude, keep)

\* patterns less every include node of namespace ns, at any depth
RECURSIVE Without(_, _)
Without(patterns, ns) ==
    IF patterns = << >> THEN << >>
    ELSE LET pattern == Head(patterns)
             here == IF pattern.node = "leaf" THEN <<pattern>>
                     ELSE IF pattern.namespace = Some(ns) THEN << >>
                     ELSE <<[pattern EXCEPT !.url_patterns = Without(@, ns)]>>
         IN  here \o Without(Tail(patterns), ns)

\* the handler of every entry, in order
EntryCallbacks(apis) == [i \in DOMAIN apis |-> apis[i].callback]

\* excluding one more namespace gives what the tree gives without the
\* include nodes of that namespace: their entries go and no other
ExclusionRemovesSubtrees ==
    rc.pc = "excluded" =>
        rc.apis_excluding =
            get_apis(Without(rc.patterns, rc.namespace[1]), rc.filter_path,
                     rc.exclude_namespaces)

\* the API handlers, and those of them that are no router's root listing
ApiHandlers == Handlers \ {"View"}
DocumentedHandlers == ApiHandlers \ {"APIRoot"}

Invocations == {1, 2}

\* the view of test_get_serializer_class_access_request_context: a
\* ListCreateAPIView whose get_serializer_class reads self.request
MyListView ==
    APIViewHandler(EmptyDoc, EmptyDoc, Some(SerializerClass(1)),
                   <<"GET", "POST", "OPTIONS">>)

\* the handler's get_serializer_class reads self.request
accesses_request(callback) == callback = MyListView

\* the endpoints both invocations document; the view set without an action
\* map makes generate raise
SharedApis ==
    {Api(MyListView, None),
     Api(APIViewHandler(EmptyDoc, EmptyDoc, None, <<"OPTIONS">>), None),
     Api(ViewSetHandler(EmptyDoc, EmptyDoc, Some(SerializerClass(2))), None),
     DetailApi}

\* HttpRequest(): a new object, told apart by who made it and for which api
HttpRequest(t, idx) == [by |-> t, n |-> idx]

\* ModelGenerator.generate run to its end on the generator state mg
RECURSIVE models_generate(_)
models_generate(mg) ==
    IF DOMAIN mg.serializers = {} THEN mg.models
    ELSE LET id == CHOOSE x \in DOMAIN mg.serializers : TRUE
             popped == [mg EXCEPT !.serializers = popitem(@, id)]
         IN  IF already_generated(id, popped.models) THEN models_generate(popped)
             ELSE CHOOSE result \in
                     {models_generate([serializers |-> r.mg.serializers,
                                       models |-> DictSet(r.mg.models, id, r.model)]) :
                         r \in {generate_model(id, mg.serializers[id], popped)}} : TRUE

\* the loop of _retrieve_api_info (lines 50-65) over the methods left
RECURSIVE retrieve_methods_info(_, _, _, _)
retrieve_methods_info(introspector, methods, operations, mg) ==
    IF methods = << >> THEN [raised |-> None, operations |-> operations, mg |-> mg]
    ELSE CHOOSE result \in
            {IF mi.raised # None
             THEN [raised |-> mi.raised, operations |-> operations, mg |-> mg]
             ELSE CHOOSE rest \in
                     {retrieve_methods_info(introspector, Tail(methods),
                                            r.operations, r.mg) :
                         r \in {retrieve_method_info(operations, mg, mi.self)}} : TRUE :
                mi \in {yield_method(introspector, Head(methods))}} : TRUE

\* _retrieve_api_info after _resolve_api_introspector returned introspector
retrieve_api_info(introspector) ==
    CHOOSE result \in
        {IF m.raised # None THEN [raised |-> m.raised, info |-> << >>]
         ELSE CHOOSE info \in
                 {IF r.raised # None THEN [raised |-> r.raised, info |-> << >>]
                  ELSE [raised |-> None,
                        info |-> [operations |-> r.operations,
                                  models |-> models_generate(r.mg)]] :
                     r \in {retrieve_methods_info(
                                introspector, m.methods, << >>,
                                [serializers |-> EmptyDict, models |-> EmptyDict])}} : TRUE :
            m \in {iter_methods(introspector)}} : TRUE

\* the handler's get_serializer_class is called during the loop: the view
\* has a method other than OPTIONS
calls_get_serializer_class(introspector) ==
    \E i \in DOMAIN iter_methods(introspector).methods :
        upper(iter_methods(introspector).methods[i][1]) # "OPTIONS"

\* an invocation that has not started its loop
CallStart ==
    [pc |-> "loop", idx |-> 1, view |-> None, seen |-> << >>, apis_docs |-> << >>,
     models_docs |-> EmptyDict, raised |-> None, result |-> None]

InitConcurrent ==
    /\ MgIdle
    /\ ifs = IfsIdle
    /\ intro = IntroIdle
    /\ dg = DgIdle
    /\ prs = ParserIdle
    /\ rc = RcIdle
    /\ \E n \in 1..MaxApis : \E apis \in [1..n -> SharedApis] :
          gens = [apis |-> apis,
                  request |-> [c \in {apis[i].callback : i \in 1..n} |-> None],
                  calls |-> [t \in Invocations |-> CallStart]]

\* _resolve_api_introspector (lines 72-85) of invocation t:
\* `callback.request = HttpRequest()` sets the attribute on the handler
\* class, then the view introspector is constructed
GenResolve(t) ==
    LET call == gens.calls[t]
        api == gens.apis[call.idx]
        v == BaseViewIntrospector(api.callback, api.path, api.pattern)
    IN  /\ call.pc = "loop"
        /\ call.idx <= Len(gens.apis)
        /\ gens' = [gens EXCEPT
                       !.request[api.callback] = Some(HttpRequest(t, call.idx)),
                       !.calls[t] =
                           IF v.raised # None
                           THEN [call EXCEPT !.pc = "raised", !.raised = v.raised]
                           ELSE [call EXCEPT !.pc = "introspect",
                                             !.view = Some(v.self)]]
        /\ UNCHANGED <<mgVars, ifs, intro, dg, prs, rc>>

\* the rest of _retrieve_api_info and generate lines 27-35 of invocation t:
\* the handler instances made by callback() find `request` on their class
GenIntrospect(t) ==
    /\ gens.calls[t].pc = "introspect"
    /\ \E call \in {gens.calls[t]} : \E api \in {gens.apis[call.idx]} :
       \E r \in {retrieve_api_info(call.view[1])} :
       \E observed \in {IF accesses_request(api.callback)
                            /\ calls_get_serializer_class(call.view[1])
                        THEN <<gens.request[api.callback][1]>> ELSE << >>} :
          gens' = [gens EXCEPT !.calls[t] =
                      IF r.raised # None
                      THEN [call EXCEPT !.pc = "raised", !.raised = r.raised,
                                        !.seen = @ \o observed]
                      ELSE [call EXCEPT
                               !.pc = "loop",
                               !.idx = @ + 1,
                               !.view = None,
                               !.seen = @ \o observed,
                               !.apis_docs = Append(@, [path |-> api.path,
                                                        operations |-> r.info.operations]),
                               !.models_docs =
                                   IF Cardinality(DOMAIN r.info.models) > 0
                                   THEN DictMerge(@, r.info.models) ELSE @]]
    /\ UNCHANGED <<mgVars, ifs, intro, dg, prs, rc>>

\* generate lines 36-39 of invocation t
GenReturn(t) ==
    LET call == gens.calls[t]
    IN  /\ call.pc = "loop"
        /\ call.idx > Len(gens.apis)
        /\ gens' = [gens EXCEPT !.calls[t] =
                       [call EXCEPT !.pc = "done",
                                    !.result = Some([apis |-> call.apis_docs,
                                                     models |-> call.models_docs])]]
        /\ UNCHANGED <<mgVars, ifs, intro, dg, prs, rc>>

NextConcurrent ==
    \E t \in Invocations : GenResolve(t) \/ GenIntrospect(t) \/ GenReturn(t)

SpecConcurrent == InitConcurrent /\ [][NextConcurrent]_vars

\* the document generate(apis) returns when nothing runs beside it
RECURSIVE GeneratedAlone(_, _)
GeneratedAlone(apis, doc) ==
    IF apis = << >> THEN doc
    ELSE CHOOSE result \in
            {GeneratedAlone(
                 Tail(apis),
                 [apis |-> Append(doc.apis, [path |-> Head(apis).path,
                                             operations |-> r.info.operations]),
                  models |-> IF Cardinality(DOMAIN r.info.models) > 0
                             THEN DictMerge(doc.models, r.info.models)
                             ELSE doc.models]) :
                r \in {retrieve_api_info(
                           BaseViewIntrospector(Head(apis).callback, Head(apis).path,
                                                Head(apis).pattern).self)}} : TRUE

\* C23: invocations of generate are isolated: what a handler sees of the
\* state written on its class during an invocation was written by that
\* invocation, nothing an invocation wrote on a handler class is left when
\* it has returned, and every invocation returns the document it returns
\* when run alone.
C23_Isolated ==
    /\ \A t \in DOMAIN gens.calls : \A i \in DOMAIN gens.calls[t].seen :
          gens.calls[t].seen[i].by = t
    /\ \A c \in DOMAIN gens.request :
          gens.request[c] # None => gens.calls[gens.request[c][1].by].pc # "done"
    /\ \A t \in DOMAIN gens.calls :
          gens.calls[t].pc = "done" =>
              gens.calls[t].result =
                  Some(GeneratedAlone(gens.apis, [apis |-> << >>, models |-> EmptyDict]))

====
